---- MODULE Spec2Model ----
(***************************************************************************)
(* A model of the judge's sandbox subsystem of mattfbacon/autograder:      *)
(*   - the Result Codec of src/src/model.rs (TestResponse::repr, FromStr   *)
(*     for TestResponse, TryFrom<String> for SimpleTestResponse), checked  *)
(*     under CodecSpec;                                                    *)
(*   - process startup (main, Sandbox::new, build_docker_image) of         *)
(*     src/src/main.rs and src/src/sandbox.rs, checked under Spec.         *)
(* Text is modelled as a sequence of one-character strings, so that        *)
(* formatting and parsing are computed character by character.             *)
(***************************************************************************)
EXTENDS Integers, Sequences, FiniteSets, TLC

VARIABLES
    resp,        \* codec: the TestResponse handed to the encoder (NoResp: none)
    result,      \* codec: the submissions.result column (Option of text)
    full,        \* codec: outcome of the full decode of the column
    simple,      \* codec: outcome of the SimpleTestResponse decode of the column
    pc,          \* startup: position of main
    child,       \* startup: the `docker build` child process
    image_id,    \* startup: build_docker_image's local `image_id`
    sandbox,     \* startup: the Sandbox under construction / in State
    runs,        \* startup: image handles of the container runs made so far
    log,         \* startup: the build, Versions and test invocations, in order
    about,       \* startup: outcome of the last request for the /about page
    calls,       \* run: the run_command invocations, by invocation number
    fs,          \* run: the temporary directories that exist, with their command file
    nextDir,     \* run: the counter that names the next temporary directory
    containers,  \* run: the containers that are running
    subs,        \* run: the rows of the submissions table
    raw,         \* tests: the text handed to Tests::try_from
    validated,   \* tests: what Tests::validate returned for it
    tests,       \* tests: the Tests value constructed from it (Option)
    pairs,       \* tests: what iterating Tests::cases gave
    clock,       \* web: the system clock, in seconds
    ticks,       \* web: how many times the clock has advanced
    sessions,    \* auth: the rows of the sessions table
    reqs,        \* auth: the requests passing through the auth layer
    account,     \* reset: the password-reset columns of a user's row
    posts        \* reset: the password-reset handler invocations

codecVars == <<resp, result, full, simple>>
startVars == <<pc, child, image_id, sandbox, runs>>
auxVars == <<log, about>>
runVars == <<calls, fs, nextDir, containers, subs>>
testsVars == <<raw, validated, tests, pairs>>
timeVars == <<clock, ticks>>
authVars == <<sessions, reqs>>
resetVars == <<account, posts>>
webVars == <<testsVars, timeVars, authVars, resetVars>>
vars ==
    <<resp, result, full, simple, pc, child, image_id, sandbox, runs,
      log, about, calls, fs, nextDir, containers, subs,
      raw, validated, tests, pairs,
      clock, ticks, sessions, reqs, account, posts>>

----------------------------------------------------------------------------
(* Bounds of the model *)

MaxCases == 3       \* longest case list handed to the encoder
MaxReason == 3      \* longest freely generated InvalidProgram reason
MaxRecs == 2        \* most ';'-separated pieces of a hand-written column text
MaxLines == 3       \* most output lines of the `docker build` child
MaxTests == 2       \* most test calls followed after startup
MaxCalls == 2       \* most test invocations (judge and rejudge) of a run
MaxSubs == 2        \* most rows of the submissions table
MaxPieces == 3      \* most pieces of a test corpus text
MaxTicks == 3       \* most advances of the clock
MaxReqs == 2        \* most requests through the auth layer
MaxPosts == 2       \* most password-reset handler invocations

----------------------------------------------------------------------------
(* Option and text helpers *)

None == [some |-> FALSE, val |-> <<>>]
Some(v) == [some |-> TRUE, val |-> v]

SeqsUpTo(S, n) == UNION {[1..k -> S] : k \in 0..n}

Digits == <<"0", "1", "2", "3", "4", "5", "6", "7", "8", "9">>

DigitChars == {Digits[i] : i \in 1..10}

DigitVal(c) == (CHOOSE i \in 1..10 : Digits[i] = c) - 1

\* memory_usage and time are unsigned integers of a fixed width.  The width is
\* scaled to 16 bits so that the overflow boundary of the parser is reachable.
UnsignedMax == 65535

\* Display for an unsigned integer: decimal, no sign, no leading zeros.
RECURSIVE ToDec(_)
ToDec(n) ==
    IF n < 10 THEN <<Digits[n + 1]>>
    ELSE ToDec(n \div 10) \o <<Digits[(n % 10) + 1]>>

\* The digit loop of str::parse for an unsigned integer: checked multiply and add.
RECURSIVE ParseDigits(_, _)
ParseDigits(s, acc) ==
    IF s = <<>> THEN Some(acc)
    ELSE IF Head(s) \notin DigitChars THEN None
    ELSE IF acc * 10 + DigitVal(Head(s)) > UnsignedMax THEN None
    ELSE ParseDigits(Tail(s), acc * 10 + DigitVal(Head(s)))

\* str::parse for an unsigned integer: empty, a lone sign and '-' are errors,
\* one leading '+' is accepted.
ParseUnsigned(s) ==
    IF s = <<>> THEN None
    ELSE IF Len(s) = 1 /\ Head(s) \in {"+", "-"} THEN None
    ELSE IF Head(s) = "+" THEN ParseDigits(Tail(s), 0)
    ELSE ParseDigits(s, 0)

\* Index of the first occurrence of character d in s, 0 if there is none.
FirstIndex(s, d) ==
    IF \E i \in 1..Len(s) : s[i] = d
    THEN CHOOSE i \in 1..Len(s) : s[i] = d /\ \A j \in 1..(i - 1) : s[j] # d
    ELSE 0

\* str::split_once
SplitOnce(s, d) ==
    LET i == FirstIndex(s, d) IN
    IF i = 0 THEN None
    ELSE Some(<<SubSeq(s, 1, i - 1), SubSeq(s, i + 1, Len(s))>>)

\* str::split: the pieces between the occurrences of d (always at least one).
RECURSIVE Split(_, _)
Split(s, d) ==
    LET i == FirstIndex(s, d) IN
    IF i = 0 THEN <<s>>
    ELSE <<SubSeq(s, 1, i - 1)>> \o Split(SubSeq(s, i + 1, Len(s)), d)

SplitTerminator_Split(s, d) == Split(s, d)

\* str::split_terminator: as split, but a final empty piece is dropped.
SplitTerminator(s, d) ==
    LET p == Split(s, d) IN
    IF p[Len(p)] = <<>> THEN SubSeq(p, 1, Len(p) - 1) ELSE p

----------------------------------------------------------------------------
(* The verdict data model (sandbox::CaseResultKind, CaseResult, TestResponse) *)

Kinds == {"Correct", "Wrong", "RuntimeError", "TimeLimitExceeded", "MemoryLimitExceeded"}

CaseResult(k, m, t) == [kind |-> k, memory_usage |-> m, time |-> t]

OkResp(cases) == [tag |-> "Ok", cases |-> cases, reason |-> <<>>]
InvalidProgram(reason) == [tag |-> "InvalidProgram", cases |-> <<>>, reason |-> reason]
NoResp == [tag |-> "None", cases |-> <<>>, reason |-> <<>>]

\* enum_to_ty!: CaseResultKind -> char
case_result_to_char(k) ==
    CASE k = "Correct" -> "c"
      [] k = "Wrong" -> "w"
      [] k = "RuntimeError" -> "r"
      [] k = "TimeLimitExceeded" -> "t"
      [] k = "MemoryLimitExceeded" -> "m"

\* enum_to_ty!: char -> Option<CaseResultKind>
case_result_from_char(c) ==
    CASE c = "c" -> Some("Correct")
      [] c = "w" -> Some("Wrong")
      [] c = "r" -> Some("RuntimeError")
      [] c = "t" -> Some("TimeLimitExceeded")
      [] c = "m" -> Some("MemoryLimitExceeded")
      [] OTHER -> None

----------------------------------------------------------------------------
(* TestResponse::repr *)

WriteCase_TimeFirst(c) ==
    <<case_result_to_char(c.kind)>> \o <<",">> \o ToDec(c.time)
        \o <<",">> \o ToDec(c.memory_usage) \o <<";">>

\* write!(buf, "{},{},{};", kind char, memory_usage, time)
WriteCase(c) ==
    <<case_result_to_char(c.kind)>> \o <<",">> \o ToDec(c.memory_usage)
        \o <<",">> \o ToDec(c.time) \o <<";">>

\* the loop over the cases, appending to buf
RECURSIVE WriteCases(_, _)
WriteCases(buf, cases) ==
    IF cases = <<>> THEN buf
    ELSE WriteCases(buf \o WriteCase(Head(cases)), Tail(cases))

AllCorrect_LastOnly(cases) ==
    cases = <<>> \/ cases[Len(cases)].kind = "Correct"

\* all_correct starts true and is and-ed with matches!(case.kind, Correct)
RECURSIVE AllCorrectFrom(_, _)
AllCorrectFrom(acc, cases) ==
    IF cases = <<>> THEN acc
    ELSE AllCorrectFrom(acc /\ (Head(cases).kind = "Correct"), Tail(cases))

AllCorrect(cases) == AllCorrectFrom(TRUE, cases)

ReprOk(cases) ==
    LET buf == WriteCases(<<"?">>, cases) IN
    [buf EXCEPT ![1] = IF AllCorrect(cases) THEN "o" ELSE "e"]

ReprInvalid_NoTag(reason) == reason

\* ["i", reason].concat()
ReprInvalid(reason) == <<"i">> \o reason

Repr(r) == IF r.tag = "Ok" THEN ReprOk(r.cases) ELSE ReprInvalid(r.reason)

----------------------------------------------------------------------------
(* impl FromStr for TestResponse *)

\* the closure mapped over the records
ParseCase(case) ==
    LET a == SplitOnce(case, ",") IN
    IF ~a.some THEN None
    ELSE
    LET kind == a.val[1]
        b == SplitOnce(a.val[2], ",")
    IN
    IF ~b.some THEN None
    ELSE IF kind = <<>> THEN None
    ELSE IF Len(kind) > 1 THEN None
    ELSE
    LET k == case_result_from_char(kind[1])
        m == ParseUnsigned(b.val[1])
        t == ParseUnsigned(b.val[2])
    IN
    IF ~k.some THEN None
    ELSE IF ~m.some THEN None
    ELSE IF ~t.some THEN None
    ELSE Some(CaseResult(k.val, m.val, t.val))

CollectCases_Skip(records) ==
    LET good == SelectSeq(records, LAMBDA r : ParseCase(r).some) IN
    Some([i \in 1..Len(good) |-> ParseCase(good[i]).val])

\* .map(closure).collect::<Option<Vec<_>>>(): None as soon as one record is None
CollectCases(records) ==
    IF \E i \in 1..Len(records) : ~ParseCase(records[i]).some THEN None
    ELSE Some([i \in 1..Len(records) |-> ParseCase(records[i]).val])

DecodeInvalid_FirstLine(rest) ==
    InvalidProgram(Split(rest, "\n")[1])

\* 'i' => TR::InvalidProgram(chars.as_str().into())
DecodeInvalid(rest) == InvalidProgram(rest)

from_str_inner_TagChecked(value) ==
    IF value = <<>> THEN None
    ELSE
    LET first == Head(value)
        rest == Tail(value)
    IN
    IF first \in {"o", "e"} THEN
        LET cases == CollectCases(SplitTerminator(rest, ";")) IN
        IF ~cases.some THEN None
        ELSE IF (first = "o") # (\A i \in 1..Len(cases.val) : cases.val[i].kind = "Correct")
        THEN None
        ELSE Some(OkResp(cases.val))
    ELSE IF first = "i" THEN Some(DecodeInvalid(rest))
    ELSE None

from_str_inner(value) ==
    IF value = <<>> THEN None
    ELSE
    LET first == Head(value)
        rest == Tail(value)
    IN
    IF first \in {"o", "e"} THEN
        LET cases == CollectCases(SplitTerminator(rest, ";")) IN
        IF cases.some THEN Some(OkResp(cases.val)) ELSE None
    ELSE IF first = "i" THEN Some(DecodeInvalid(rest))
    ELSE None

Pending == [st |-> "pending", val |-> NoResp]
DecodeErr == [st |-> "err", val |-> NoResp]
DecodeOk(v) == [st |-> "ok", val |-> v]

\* inner(value).ok_or_else(|| TestResponseFromStrError(..))
FromStr(value) ==
    LET r == from_str_inner(value) IN
    IF r.some THEN DecodeOk(r.val) ELSE DecodeErr

----------------------------------------------------------------------------
(* impl TryFrom<String> for SimpleTestResponse *)

SimpleTryFrom_Swapped(value) ==
    IF value = <<>> THEN "err"
    ELSE CASE Head(value) = "o" -> "Correct"
           [] Head(value) = "e" -> "InvalidProgram"
           [] Head(value) = "i" -> "Wrong"
           [] OTHER -> "err"

SimpleTryFrom_Default(value) ==
    IF value = <<>> THEN "err"
    ELSE CASE Head(value) = "o" -> "Correct"
           [] Head(value) = "i" -> "InvalidProgram"
           [] OTHER -> "Wrong"

SimpleTryFrom(value) ==
    IF value = <<>> THEN "err"
    ELSE CASE Head(value) = "o" -> "Correct"
           [] Head(value) = "e" -> "Wrong"
           [] Head(value) = "i" -> "InvalidProgram"
           [] OTHER -> "err"

\* SQLite's  result like 'o%'  of the solved / pass-rate queries: LIKE compares
\* ASCII letters without regard to case.
SqlLikeO(text) == text # <<>> /\ Head(text) \in {"o", "O"}

----------------------------------------------------------------------------
(* Inputs of the codec *)

NumPairs == {<<120, 15>>, <<0, UnsignedMax>>}

CaseResults ==
    {CaseResult(k, p[1], p[2]) : k \in Kinds, p \in NumPairs}
        \cup {CaseResult("Wrong", 130, 20)}

ReasonChars == {"o", ";", ",", "\n", " ", "d"}

DivisionByZero ==
    <<"d", "i", "v", "i", "s", "i", "o", "n", " ", "b", "y", " ", "z", "e", "r", "o">>

TestResponses ==
    {OkResp(cs) : cs \in SeqsUpTo(CaseResults, MaxCases)}
        \cup {InvalidProgram(r) : r \in SeqsUpTo(ReasonChars, MaxReason)}
        \cup {InvalidProgram(DivisionByZero)}

\* Pieces of column text that did not come out of the encoder (rows written by
\* another revision or through the admin SQL console): well-formed records and
\* records broken in each of the ways the decoder looks for.
RecordTexts ==
    { <<"c", ",", "1", "2", "0", ",", "1", "5">>,      \* c,120,15
      <<"w", ",", "1", "3", "0", ",", "2", "0">>,      \* w,130,20
      <<"c", ",", "+", "1", ",", "0", "7">>,           \* c,+1,07
      <<>>,                                            \* empty record
      <<"c">>,                                         \* one field
      <<"c", ",", "1">>,                               \* two fields
      <<"c", ",", "1", ",", "2", ",", "3">>,           \* four fields
      <<",", "1", ",", "2">>,                          \* empty kind
      <<"c", "c", ",", "1", ",", "2">>,                \* two-character kind
      <<"x", ",", "1", ",", "2">>,                     \* kind not in the table
      <<"c", ",", ",", "2">>,                          \* empty memory
      <<"c", ",", "a", ",", "2">>,                     \* memory not a number
      <<"c", ",", "1", ",", "-", "2">>,                \* negative time
      <<"c", ",", "1", ",", "6", "5", "5", "3", "6">>  \* time overflows
    }

RawTags == {<<>>, <<"o">>, <<"e">>, <<"i">>, <<"x">>, <<"O">>, <<"?">>}

\* the pieces joined by ';', with or without a final ';'
RECURSIVE Body(_, _)
Body(ps, term) ==
    IF ps = <<>> THEN <<>>
    ELSE IF Len(ps) = 1 THEN ps[1] \o (IF term THEN <<";">> ELSE <<>>)
    ELSE ps[1] \o <<";">> \o Body(Tail(ps), term)

RawTexts ==
    {t \o Body(ps, term) :
        t \in RawTags, ps \in SeqsUpTo(RecordTexts, MaxRecs), term \in BOOLEAN}

----------------------------------------------------------------------------
(* The codec as a state machine: a verdict is encoded into the result column, *)
(* and the column is read back by the full and by the simple decoder.         *)

\* nothing validated yet, nothing iterated yet
NotValidated == [t |-> "pending", index |-> 0]
NotIterated == [t |-> "pending", list |-> <<>>]

TestsIdle ==
    /\ raw = <<>>
    /\ validated = NotValidated
    /\ tests = None
    /\ pairs = NotIterated

\* Option::None of a nullable integer column
Null == -1

TimeIdle ==
    /\ clock = 0
    /\ ticks = 0

AuthIdle ==
    /\ sessions = {}
    /\ reqs = <<>>

ResetIdle ==
    /\ account = [password |-> 0, key |-> Null, expiration |-> Null, email |-> TRUE]
    /\ posts = <<>>

WebIdle == TestsIdle /\ TimeIdle /\ AuthIdle /\ ResetIdle

AuxIdle ==
    /\ log = <<>>
    /\ about = "none"

RunIdle ==
    /\ calls = <<>>
    /\ fs = {}
    /\ nextDir = 1
    /\ containers = {}
    /\ subs = <<>>

StartupIdle ==
    /\ AuxIdle
    /\ RunIdle
    /\ WebIdle
    /\ pc = "idle"
    /\ child = [state |-> "none", out |-> <<>>, status |-> 0]
    /\ image_id = None
    /\ sandbox = None
    /\ runs = <<>>

CodecInit ==
    /\ \/ resp \in TestResponses /\ result = None
       \/ resp = NoResp /\ result \in {Some(t) : t \in RawTexts}
    /\ full = Pending
    /\ simple = "pending"
    /\ StartupIdle

\* sqlx Encode for TestResponse: the column is bound to self.repr()
Encode ==
    /\ resp # NoResp
    /\ result = None
    /\ result' = Some(Repr(resp))
    /\ UNCHANGED <<resp, full, simple, startVars, auxVars, runVars, webVars>>

\* sqlx Decode for TestResponse: raw.try_into(), which is value.parse()
Decode ==
    /\ result.some
    /\ full = Pending
    /\ full' = FromStr(result.val)
    /\ UNCHANGED <<resp, result, simple, startVars, auxVars, runVars, webVars>>

\* sqlx Decode for SimpleTestResponse
DecodeSimple ==
    /\ result.some
    /\ simple = "pending"
    /\ simple' = SimpleTryFrom(result.val)
    /\ UNCHANGED <<resp, result, full, startVars, auxVars, runVars, webVars>>

CodecNext == Encode \/ Decode \/ DecodeSimple

CodecSpec == CodecInit /\ [][CodecNext]_vars

----------------------------------------------------------------------------
(* Properties of the codec, checked under CodecSpec *)

Range(s) == {s[i] : i \in 1..Len(s)}

EveryCorrect(cases) == \A i \in 1..Len(cases) : cases[i].kind = "Correct"

Classify(r) ==
    IF r.tag = "InvalidProgram" THEN "InvalidProgram"
    ELSE IF EveryCorrect(r.cases) THEN "Correct"
    ELSE "Wrong"

\* C1: decoding the text produced by encoding a TestResponse succeeds and gives
\* back an equal value, the cases in the same order.
C1_RoundTrip ==
    (resp # NoResp /\ result.some /\ full # Pending) => full = DecodeOk(resp)

C1_Witness ==
    /\ resp.tag = "Ok"
    /\ Len(resp.cases) >= 2
    /\ resp.cases[1].kind # resp.cases[2].kind
    /\ resp.cases[1].memory_usage # resp.cases[2].memory_usage
    /\ full = DecodeOk(resp)

\* C2: the first character of an encoded Ok verdict is 'o' exactly when every
\* case is Correct (also for the empty list), 'e' when some case is not, and
\* the placeholder '?' is nowhere in the output.
C2_TagCorrect ==
    (resp.tag = "Ok" /\ result.some) =>
        /\ (result.val[1] = "o") <=> EveryCorrect(resp.cases)
        /\ (~EveryCorrect(resp.cases)) => result.val[1] = "e"
        /\ "?" \notin Range(result.val)

C2_Witness ==
    /\ resp.tag = "Ok"
    /\ result.some
    /\ Len(resp.cases) >= 2
    /\ resp.cases[1].kind = "Wrong"
    /\ resp.cases[Len(resp.cases)].kind = "Correct"
    /\ result.val[1] = "e"

\* C3: the simple decode of an encoded TestResponse succeeds and equals the
\* classification of the value (and of the fully decoded value).
C3_SimpleAgree ==
    (resp # NoResp /\ result.some /\ simple # "pending") =>
        /\ simple = Classify(resp)
        /\ full.st = "ok" => simple = Classify(full.val)

C3_Witness ==
    /\ resp.tag = "Ok"
    /\ ~EveryCorrect(resp.cases)
    /\ simple = "Wrong"
    /\ full.st = "ok"

\* C4: a text that is empty or whose first character is not 'o', 'e' or 'i' is
\* a decode error for both decoders.
C4_UnrecognizedTag ==
    (result.some /\ (result.val = <<>> \/ result.val[1] \notin {"o", "e", "i"})) =>
        /\ full \in {Pending, DecodeErr}
        /\ simple \in {"pending", "err"}

C4_Witness ==
    /\ result.some
    /\ result.val # <<>>
    /\ result.val[1] = "O"
    /\ Len(result.val) > 1
    /\ full = DecodeErr
    /\ simple = "err"

\* The ';'-separated records of the text after the tag: every piece that a ';'
\* ends, and the piece after the last ';' when it is not empty.
RecordsOf(body) ==
    LET p == Split(body, ";") IN
    IF p[Len(p)] = <<>> THEN SubSeq(p, 1, Len(p) - 1) ELSE p

KindTexts == {<<"c">>, <<"w">>, <<"r">>, <<"t">>, <<"m">>}

Malformed(rec) ==
    LET f == Split(rec, ",") IN
    \/ rec = <<>>
    \/ Len(f) < 3
    \/ f[1] \notin KindTexts
    \/ ~ParseUnsigned(f[2]).some
    \/ ~ParseUnsigned(f[3]).some

\* C5: decoding a text tagged 'o' or 'e' in which some record is empty, has
\* fewer than three fields, has a kind that is not one character of the
\* table, or has a memory or time that is not an unsigned integer, fails.
C5_MalformedRecord ==
    (/\ result.some
     /\ result.val # <<>>
     /\ result.val[1] \in {"o", "e"}
     /\ \E i \in 1..Len(RecordsOf(Tail(result.val))) :
            Malformed(RecordsOf(Tail(result.val))[i])
     /\ full # Pending)
        => full = DecodeErr

C5_Witness ==
    /\ result.some
    /\ result.val # <<>>
    /\ result.val[1] = "o"
    /\ Len(RecordsOf(Tail(result.val))) = 2
    /\ ~Malformed(RecordsOf(Tail(result.val))[1])
    /\ Malformed(RecordsOf(Tail(result.val))[2])
    /\ full = DecodeErr

KindChar ==
    [k \in Kinds |->
        CASE k = "Correct" -> "c"
          [] k = "Wrong" -> "w"
          [] k = "RuntimeError" -> "r"
          [] k = "TimeLimitExceeded" -> "t"
          [] k = "MemoryLimitExceeded" -> "m"]

RECURSIVE Flatten(_)
Flatten(ss) == IF ss = <<>> THEN <<>> ELSE Head(ss) \o Flatten(Tail(ss))

ExpectedCase(c) ==
    <<KindChar[c.kind], ",">> \o ToDec(c.memory_usage) \o <<",">> \o ToDec(c.time) \o <<";">>

ScenarioA == OkResp(<<CaseResult("Correct", 120, 15)>>)
ScenarioAText == <<"o", "c", ",", "1", "2", "0", ",", "1", "5", ";">>

ScenarioB == OkResp(<<CaseResult("Correct", 120, 15), CaseResult("Wrong", 130, 20)>>)
ScenarioBText ==
    <<"e", "c", ",", "1", "2", "0", ",", "1", "5", ";",
      "w", ",", "1", "3", "0", ",", "2", "0", ";">>

\* C6: an encoded Ok verdict is the tag followed, for each case in order, by
\* "<kind-char>,<memory_usage>,<time>;" in decimal; Correct(120,15) alone gives
\* "oc,120,15;" and Correct(120,15),Wrong(130,20) gives "ec,120,15;w,130,20;".
C6_OkFormat ==
    (resp.tag = "Ok" /\ result.some) =>
        /\ result.val =
              <<IF EveryCorrect(resp.cases) THEN "o" ELSE "e">>
                  \o Flatten([i \in 1..Len(resp.cases) |-> ExpectedCase(resp.cases[i])])
        /\ resp = ScenarioA => result.val = ScenarioAText
        /\ resp = ScenarioB => result.val = ScenarioBText

C6_Witness ==
    /\ resp = ScenarioB
    /\ result = Some(ScenarioBText)

\* C7: an encoded InvalidProgram is 'i' followed by the reason unchanged, and
\* decoding any text that starts with 'i' gives InvalidProgram with the rest
\* of the text as its reason.
C7_InvalidVerbatim ==
    /\ (resp.tag = "InvalidProgram" /\ result.some) =>
            result.val = <<"i">> \o resp.reason
    /\ (result.some /\ result.val # <<>> /\ result.val[1] = "i" /\ full # Pending) =>
            full = DecodeOk(InvalidProgram(Tail(result.val)))

C7_Witness ==
    /\ resp.tag = "InvalidProgram"
    /\ {"\n", ";", " "} \subseteq Range(resp.reason)
    /\ resp.reason[1] = " "
    /\ result = Some(<<"i">> \o resp.reason)
    /\ full = DecodeOk(resp)

\* C8: the stored text of an encoded TestResponse starts with 'o', and is
\* matched by  result like 'o%',  exactly when it is Ok with every case
\* Correct.
C8_PrefixFilter ==
    (resp # NoResp /\ result.some) =>
        /\ (result.val # <<>> /\ result.val[1] = "o")
              <=> (resp.tag = "Ok" /\ EveryCorrect(resp.cases))
        /\ SqlLikeO(result.val) <=> (resp.tag = "Ok" /\ EveryCorrect(resp.cases))

C8_Witness ==
    /\ resp.tag = "InvalidProgram"
    /\ resp.reason # <<>>
    /\ resp.reason[1] = "o"
    /\ result.some
    /\ ~SqlLikeO(result.val)

----------------------------------------------------------------------------
(* Startup: main, Sandbox::new and build_docker_image *)

CodecIdle ==
    /\ resp = NoResp
    /\ result = None
    /\ full = Pending
    /\ simple = "pending"

\* the literal text of the regex, "Successfully built "
Marker ==
    <<"S", "u", "c", "c", "e", "s", "s", "f", "u", "l", "l", "y", " ",
      "b", "u", "i", "l", "t", " ">>

\* the class [a-f0-9]
HexChars == {"a", "b", "c", "d", "e", "f"} \cup DigitChars

\* the regex matches at position i: the literal, then at least one hex character
MatchAt(line, i) ==
    /\ i + Len(Marker) <= Len(line)
    /\ SubSeq(line, i, i + Len(Marker) - 1) = Marker
    /\ line[i + Len(Marker)] \in HexChars

\* regex.captures(line) and group 1: the leftmost match, the longest run of
\* hex characters after the literal
RegexCaptures(line) ==
    IF \E i \in 1..Len(line) : MatchAt(line, i)
    THEN LET i == CHOOSE i \in 1..Len(line) :
                      MatchAt(line, i) /\ \A j \in 1..(i - 1) : ~MatchAt(line, j)
             first == i + Len(Marker)
             last == CHOOSE e \in first..Len(line) :
                      /\ \A j \in first..e : line[j] \in HexChars
                      /\ (e = Len(line) \/ line[e + 1] \notin HexChars)
         IN Some(SubSeq(line, first, last))
    ELSE None

ScanLine_FirstWins(cur, line) ==
    IF cur.some THEN cur
    ELSE IF RegexCaptures(line).some THEN Some(RegexCaptures(line).val)
    ELSE cur

\* the body of the loop over the lines: a matching line sets image_id
ScanLine(cur, line) ==
    IF RegexCaptures(line).some THEN Some(RegexCaptures(line).val) ELSE cur

BuildOutcome_NoAssert(status, id) ==
    IF ~id.some THEN "panic" ELSE "ok"

\* after the loop: assert!(status.success()), then image_id.expect(..)
BuildOutcome(status, id) ==
    IF status # 0 THEN "panic"
    ELSE IF ~id.some THEN "panic"
    ELSE "ok"

\* Lines the `docker build` child may print.  utf8 = FALSE is a line that
\* BufRead::lines reports as an error.
TextLine(t) == [utf8 |-> TRUE, text |-> t]

BuildLines ==
    { TextLine(<<"S", "t", "e", "p", " ", "1">>),
      TextLine(Marker),
      TextLine(Marker \o <<"G", "1">>),
      TextLine(Marker \o <<"a", "1">>),
      TextLine(Marker \o <<"b", "2", "c">>),
      TextLine(<<"#", " ">> \o Marker \o <<"c", "3", "x", "4">>),
      TextLine(Marker \o <<"d", "4", " ">> \o Marker \o <<"e", "5">>),
      [utf8 |-> FALSE, text |-> <<>>] }

ExitStatuses == {0, 1}

\* The reply of the in-image runner to the Versions command: one version
\* string per Language, in the order of the Language ordinals.
AllVersions == <<"python3", "gcc", "g++", "javac", "rustc">>

\* what the Versions command gives back: a container error, bytes that do not
\* decode, or the decoded list of version strings
VersionsResponses ==
    {[kind |-> "container_error", list |-> <<>>], [kind |-> "decode_error", list |-> <<>>],
     [kind |-> "ok", list |-> AllVersions]}

StartInit ==
    /\ pc = "start"
    /\ child = [state |-> "none", out |-> <<>>, status |-> 0]
    /\ image_id = None
    /\ sandbox = None
    /\ runs = <<>>
    /\ CodecIdle
    /\ AuxIdle
    /\ RunIdle
    /\ WebIdle

\* main up to Sandbox::new: configuration, database, migrations, background
\* tasks; each `expect` aborts the process
Prepare ==
    /\ pc = "start"
    /\ \E ok \in BOOLEAN : pc' = IF ok THEN "sandbox_new" ELSE "aborted"
    /\ UNCHANGED <<child, image_id, sandbox, runs, codecVars, auxVars, runVars, webVars>>

\* Command::new("docker").args(["build", "sandbox"]).spawn().expect(..)
BuildSpawn ==
    /\ pc = "sandbox_new"
    /\ \E ok \in BOOLEAN :
          IF ok
          THEN /\ child' = [child EXCEPT !.state = "running"]
               /\ pc' = "build_read"
          ELSE /\ pc' = "aborted"
               /\ UNCHANGED child
    /\ log' = Append(log, "build")
    /\ UNCHANGED <<image_id, sandbox, runs, about, codecVars, runVars, webVars>>

\* one iteration of the loop over the child's output
BuildReadLine ==
    /\ pc = "build_read"
    /\ Len(child.out) < MaxLines
    /\ \E line \in BuildLines :
          /\ child' = [child EXCEPT !.out = Append(@, line)]
          /\ IF line.utf8
             THEN /\ image_id' = ScanLine(image_id, line.text)
                  /\ pc' = "build_read"
             ELSE /\ pc' = "aborted"
                  /\ UNCHANGED image_id
    /\ UNCHANGED <<sandbox, runs, codecVars, auxVars, runVars, webVars>>

\* end of the child's output, child.wait(), the assert and the expect; on
\* return Sandbox::new builds Self with an empty version table
BuildWait ==
    /\ pc = "build_read"
    /\ \E waited \in BOOLEAN, status \in ExitStatuses :
          IF ~waited
          THEN /\ pc' = "aborted"
               /\ UNCHANGED <<child, sandbox>>
          ELSE /\ child' = [child EXCEPT !.state = "exited", !.status = status]
               /\ IF BuildOutcome(status, image_id) = "ok"
                  THEN /\ sandbox' = Some([image_id |-> image_id.val, versions |-> <<>>])
                       /\ pc' = "versions"
                  ELSE /\ pc' = "aborted"
                       /\ UNCHANGED sandbox
    /\ UNCHANGED <<image_id, runs, codecVars, auxVars, runVars, webVars>>

VersionsEvent(kind) ==
    CASE kind = "ok" -> "versions_ok"
      [] kind = "container_error" -> "versions_container_error"
      [] kind = "decode_error" -> "versions_decode_error"

RunVersions_IgnoreFailure ==
    /\ pc = "versions"
    /\ runs' = Append(runs, sandbox.val.image_id)
    /\ \E r \in VersionsResponses :
          /\ log' = Append(log, VersionsEvent(r.kind))
          /\ sandbox' = Some([sandbox.val EXCEPT !.versions = r.list])
          /\ pc' = "constructed"
    /\ UNCHANGED <<child, image_id, about, codecVars, runVars, webVars>>

\* ret.versions = ret.run_command(Command::Versions).await.expect(..)
RunVersions ==
    /\ pc = "versions"
    /\ runs' = Append(runs, sandbox.val.image_id)
    /\ \E r \in VersionsResponses :
          /\ log' = Append(log, VersionsEvent(r.kind))
          /\ IF r.kind = "ok"
             THEN /\ sandbox' = Some([sandbox.val EXCEPT !.versions = r.list])
                  /\ pc' = "constructed"
             ELSE /\ pc' = "aborted"
                  /\ UNCHANGED sandbox
    /\ UNCHANGED <<child, image_id, about, codecVars, runVars, webVars>>

\* State { database, sandbox }, the router, bind and serve
Serve ==
    /\ pc = "constructed"
    /\ \E bound \in BOOLEAN : pc' = IF bound THEN "serving" ELSE "aborted"
    /\ UNCHANGED <<child, image_id, sandbox, runs, codecVars, auxVars, runVars, webVars>>

\* db_enum!: Language and Language::from_repr
Languages == <<"Python3", "C", "Cpp", "Java", "Rust">>

LanguageFromRepr_OneBased(repr) ==
    IF repr \in 1..Len(Languages) THEN Some(Languages[repr]) ELSE None

LanguageFromRepr(repr) ==
    CASE repr = 0 -> Some("Python3")
      [] repr = 1 -> Some("C")
      [] repr = 2 -> Some("Cpp")
      [] repr = 3 -> Some("Java")
      [] repr = 4 -> Some("Rust")
      [] OTHER -> None

\* Sandbox::test, as one step: a container run against the Sandbox's image
TestCall ==
    /\ pc = "serving"
    /\ Cardinality({i \in 1..Len(log) : log[i] = "test"}) < MaxTests
    /\ runs' = Append(runs, sandbox.val.image_id)
    /\ log' = Append(log, "test")
    /\ UNCHANGED <<pc, child, image_id, sandbox, about, codecVars, runVars, webVars>>

\* the /about handler: every index of versions() is mapped back to a Language
\* with from_repr(..).unwrap()
AboutPage ==
    /\ pc = "serving"
    /\ about' =
          IF \A i \in 1..Len(sandbox.val.versions) : LanguageFromRepr(i - 1).some
          THEN "ok" ELSE "panic"
    /\ UNCHANGED <<pc, child, image_id, sandbox, runs, log, codecVars, runVars, webVars>>

Next ==
    \/ Prepare \/ BuildSpawn \/ BuildReadLine \/ BuildWait \/ RunVersions \/ Serve
    \/ TestCall \/ AboutPage

Init == StartInit

Spec == Init /\ [][Next]_vars

----------------------------------------------------------------------------
(* Properties of startup, checked under Spec *)

MatchingLines(out) ==
    {i \in 1..Len(out) : out[i].utf8 /\ RegexCaptures(out[i].text).some}

BuildFailed ==
    /\ child.state = "exited"
    /\ (child.status # 0 \/ MatchingLines(child.out) = {})

\* C9: when the build exits with a non-zero status, or ends without a line
\* holding the success marker, no Sandbox is constructed, the process never
\* serves, and no container is run; every container run uses the handle of a
\* constructed Sandbox.
C9_BuildFailureFatal ==
    /\ BuildFailed =>
          /\ ~sandbox.some
          /\ pc \notin {"versions", "constructed", "serving"}
          /\ runs = <<>>
    /\ pc \in {"versions", "constructed", "serving"} => sandbox.some
    /\ \A i \in 1..Len(runs) :
          /\ sandbox.some
          /\ runs[i] # <<>>
          /\ runs[i] = sandbox.val.image_id

C9_Witness ==
    /\ pc = "aborted"
    /\ child.state = "exited"
    /\ child.status # 0
    /\ MatchingLines(child.out) # {}
    /\ ~sandbox.some
    /\ runs = <<>>

FirstMatch(out) == CHOOSE i \in MatchingLines(out) : \A j \in MatchingLines(out) : i <= j
LastMatch(out) == CHOOSE i \in MatchingLines(out) : \A j \in MatchingLines(out) : j <= i

\* C10 as stated: the handle is the identifier of the first matching line.
C10_FirstMarkerWins ==
    sandbox.some =>
        sandbox.val.image_id = RegexCaptures(child.out[FirstMatch(child.out)].text).val

\* C10, amended: the handle is the identifier of the last matching line; every
\* later matching line replaces the one captured before.
C10_LastMarkerWins ==
    /\ sandbox.some =>
          sandbox.val.image_id = RegexCaptures(child.out[LastMatch(child.out)].text).val
    /\ (pc = "build_read" /\ MatchingLines(child.out) # {}) =>
          image_id = Some(RegexCaptures(child.out[LastMatch(child.out)].text).val)

C10_Witness ==
    /\ sandbox.some
    /\ Cardinality(MatchingLines(child.out)) >= 2
    /\ sandbox.val.image_id = RegexCaptures(child.out[LastMatch(child.out)].text).val
    /\ sandbox.val.image_id # RegexCaptures(child.out[FirstMatch(child.out)].text).val

\* C11: the build is invoked once, then one Versions command is issued and its
\* response stored as the version table before Sandbox::new returns; a failed
\* Versions command aborts, the process never serves, and no test call runs
\* before the build and the Versions call have succeeded.
C11_StartupSequence ==
    /\ \A i \in 1..Len(log) :
          /\ (log[i] = "build") <=> (i = 1)
          /\ (log[i] \in {"versions_ok", "versions_container_error", "versions_decode_error"})
                <=> (i = 2)
          /\ (log[i] = "test") <=> (i > 2)
    /\ pc \in {"constructed", "serving"} =>
          /\ Len(log) >= 2
          /\ log[2] = "versions_ok"
          /\ sandbox.some
          /\ sandbox.val.versions = AllVersions
    /\ (Len(log) >= 2 /\ log[2] # "versions_ok") =>
          /\ pc = "aborted"
          /\ Len(log) = 2
    /\ (\E i \in 1..Len(log) : log[i] = "test") =>
          /\ child.state = "exited"
          /\ child.status = 0
          /\ log[2] = "versions_ok"
    /\ Len(runs) = Len(log) - (IF Len(log) >= 1 THEN 1 ELSE 0)

C11_Witness ==
    /\ pc = "serving"
    /\ Len(log) = 4
    /\ log[4] = "test"
    /\ Len(runs) = 3

VersionOf ==
    [l \in {Languages[i] : i \in 1..Len(Languages)} |->
        CASE l = "Python3" -> "python3"
          [] l = "C" -> "gcc"
          [] l = "Cpp" -> "g++"
          [] l = "Java" -> "javac"
          [] l = "Rust" -> "rustc"]

----------------------------------------------------------------------------
(* run_command and run_container, step by step (checked under RunSpec).     *)
(* Steps of the caller run on the scheduler thread, one at a time; the     *)
(* steps of run_container run on a blocking worker thread per invocation   *)
(* and interleave freely.                                                  *)

\* Error::Internal with its context
Err(ctx) == [ctx |-> ctx, status |-> 0, stderr |-> ""]
BadStatus(status, stderr) == [ctx |-> "running docker: got bad status", status |-> status, stderr |-> stderr]
NoErr == Err("")

\* what a worker handed back through the JoinHandle
NoRet == [t |-> "none", e |-> NoErr, out |-> None]
RetOk(out) == [t |-> "ok", e |-> NoErr, out |-> Some(out)]
RetErr(e) == [t |-> "err", e |-> e, out |-> None]
RetPanic == [t |-> "panic", e |-> NoErr, out |-> None]

\* what run_command gave its caller
NoOutcome == [t |-> "pending", v |-> NoResp, e |-> NoErr]
OutcomeOk(v) == [t |-> "ok", v |-> v, e |-> NoErr]
OutcomeErr(e) == [t |-> "err", v |-> NoResp, e |-> e]
OutcomePanic == [t |-> "panic", v |-> NoResp, e |-> NoErr]

\* Command::Versions and Command::Test(&Test { code, .. })
VersionsCommand == [command |-> "Versions", code |-> ""]
TestCommand(code) == [command |-> "Test", code |-> code]

\* the source texts submitted, and the verdict the in-image runner gives each
Codes == {"good", "broken"}

CompileError == <<"o", ";", "\n", "d">>

RunnerVerdict(code) ==
    CASE code = "good" ->
            OkResp(<<CaseResult("Correct", 120, 15), CaseResult("Wrong", 130, 20)>>)
      [] code = "broken" -> InvalidProgram(CompileError)

\* the reply of the in-image runner to the command file it finds in /input
RunnerReply(cmd) ==
    IF cmd.command = "Versions"
    THEN [tag |-> "Versions", cases |-> <<>>, reason |-> AllVersions]
    ELSE RunnerVerdict(cmd.code)

\* bytes on the container's standard output: decodable as the expected
\* response type, or not
Stdout(decodable, val) == [decodable |-> decodable, val |-> val]
Garbage == Stdout(FALSE, NoResp)

\* what std::process::Output held when output() returned, and what the
\* process had found at /input/command
NoExit == [some |-> FALSE, status |-> 0, stdout |-> Garbage, stderr |-> "", read |-> None]
Exit(status, stdout, stderr, read) ==
    [some |-> TRUE, status |-> status, stdout |-> stdout, stderr |-> stderr, read |-> read]

\* one invocation of run_command: dir is the path the worker holds (0 when it
\* holds none), made and launches count the directories and containers it
\* has created
NewCall(kind, sub, cmd) ==
    [kind |-> kind, sub |-> sub, cmd |-> cmd, step |-> "encode", dir |-> 0,
     made |-> 0, launches |-> 0, exit |-> NoExit, ret |-> NoRet,
     outcome |-> NoOutcome, enc |-> "none", run |-> "none", dec |-> "none",
     stored |-> FALSE]

\* run_container returns (or unwinds): its locals, the TempDir among them, are gone
Return(c, ret) == [c EXCEPT !.step = "joined", !.dir = 0, !.ret = ret]

NewTempDirName_Fixed(counter) == 1

\* TempDir::new(): a directory with a name not used before in this process
NewTempDirName(counter) == counter

\* create_dir: a directory that exists is left as it is
MakeDir(f, d) ==
    IF \E r \in f : r.dir = d THEN f ELSE f \cup {[dir |-> d, command |-> None]}

WriteFile_Skipped(f, d, cmd) == f

\* std::fs::write: the file in directory d holds exactly cmd afterwards
WriteFile(f, d, cmd) == {r \in f : r.dir # d} \cup {[dir |-> d, command |-> Some(cmd)]}

ReadFile_AnyDir(f, d) ==
    LET found == {r \in f : r.command.some}
    IN IF found = {} THEN None ELSE (CHOOSE r \in found : TRUE).command

\* what a process finds at /input/command when directory d is mounted at /input
ReadFile(f, d) ==
    LET found == {r \in f : r.dir = d /\ r.command.some}
    IN IF found = {} THEN None ELSE (CHOOSE r \in found : TRUE).command

DropTempDir_Leak(f, d) == f

\* the TempDir goes out of scope: the directory and its contents are removed
DropTempDir(f, d) == {r \in f : r.dir # d}

ImageOf_Tag(sb) == <<"l", "a", "t", "e", "s", "t">>

\* let image_id = Arc::clone(&self.image_id): the image a run is given
ImageOf(sb) == sb.image_id

DockerRun_Writable(call, n, image, dir) ==
    [call |-> call, n |-> n, image |-> image,
     rm |-> TRUE, memory |-> "100m", network |-> "none",
     mount |-> [source |-> dir, destination |-> "/input", readonly |-> FALSE]]

\* docker run --rm --memory=100m --network=none
\*   --mount type=bind,source={temp_dir},destination=/input,readonly image_id
DockerRun(call, n, image, dir) ==
    [call |-> call, n |-> n, image |-> image,
     rm |-> TRUE, memory |-> "100m", network |-> "none",
     mount |-> [source |-> dir, destination |-> "/input", readonly |-> TRUE]]

RunThread_Inline == "scheduler"

\* tokio::task::spawn_blocking(move || run_container(..)) under
\* #[tokio::main(flavor = "current_thread")]
RunThread == "worker"

ExitResult_IgnoreStatus(status, stdout, stderr) == RetOk(stdout)

\* if !output.status.success() { return Err(..) }  Ok(output.stdout)
ExitResult(status, stdout, stderr) ==
    IF status # 0 THEN RetErr(BadStatus(status, stderr)) ELSE RetOk(stdout)

DecodeResponse_Default(stdout) ==
    IF stdout.decodable THEN OutcomeOk(stdout.val) ELSE OutcomeOk(OkResp(<<>>))

\* ciborium::from_reader(output.as_slice()).map_err(..)
DecodeResponse(stdout) ==
    IF stdout.decodable THEN OutcomeOk(stdout.val)
    ELSE OutcomeErr(Err("deserializing response from runner"))

JoinOutcome_SwallowPanic(ret) ==
    CASE ret.t = "panic" -> OutcomeErr(Err("running docker"))
      [] ret.t = "err" -> OutcomeErr(ret.e)
      [] ret.t = "ok" -> DecodeResponse(ret.out.val)

\* .await.unwrap()? and the decoding of the output
JoinOutcome(ret) ==
    CASE ret.t = "panic" -> OutcomePanic
      [] ret.t = "err" -> OutcomeErr(ret.e)
      [] ret.t = "ok" -> DecodeResponse(ret.out.val)

AfterJoin_Retry(c, o) ==
    IF o.t = "err" /\ c.launches < 2
    THEN [c EXCEPT !.step = "spawned", !.ret = NoRet, !.exit = NoExit]
    ELSE [c EXCEPT !.step = IF o.t = "ok" /\ c.kind = "Test" THEN "store" ELSE "done",
                   !.outcome = o, !.dec = IF c.ret.t = "ok" THEN "scheduler" ELSE "none"]

AfterJoin_StoreAnyway(c, o) ==
    [c EXCEPT !.step = IF c.kind = "Test" THEN "store" ELSE "done",
              !.outcome = o, !.dec = IF c.ret.t = "ok" THEN "scheduler" ELSE "none"]

\* the invocation once run_command has returned to its caller
AfterJoin(c, o) ==
    [c EXCEPT !.step = IF o.t = "ok" /\ c.kind = "Test" THEN "store" ELSE "done",
              !.outcome = o, !.dec = IF c.ret.t = "ok" THEN "scheduler" ELSE "none"]

ColumnAfterStore_OkOnly(old, v) == IF v.tag = "Ok" THEN Some(Repr(v)) ELSE old

\* update submissions set judged_time = ?, result = ?: the column is response.repr()
ColumnAfterStore(old, v) == Some(Repr(v))

BuiltImage == <<"a", "1">>

\* the state in which Sandbox::new has the image of a successful build
RunInit ==
    /\ pc = "versions"
    /\ child = [state |-> "exited", out |-> <<TextLine(Marker \o BuiltImage)>>, status |-> 0]
    /\ image_id = Some(BuiltImage)
    /\ sandbox = Some([image_id |-> BuiltImage, versions |-> <<>>])
    /\ runs = <<>>
    /\ log = <<"build">>
    /\ about = "none"
    /\ RunIdle
    /\ WebIdle
    /\ CodecIdle

TestCalls == {i \in 1..Len(calls) : calls[i].kind = "Test"}

frame == <<child, image_id, runs, codecVars, auxVars, webVars>>

\* #[tokio::main(flavor = "current_thread")]: the tasks share one scheduler
\* thread, which is free for invocation i unless another invocation is
\* inside run_container on it
SchedulerFree(i) ==
    \A j \in 1..Len(calls) :
        j # i => ~(calls[j].run = "scheduler" /\ calls[j].step \in {"tempdir", "written", "running"})

\* Sandbox::new: self.run_command(Command::Versions) is entered
StartVersions ==
    /\ pc = "versions"
    /\ calls = <<>>
    /\ calls' = <<NewCall("Versions", 0, VersionsCommand)>>
    /\ UNCHANGED <<pc, sandbox, fs, nextDir, containers, subs, frame>>

\* handle_post: the submission is inserted with a null result, and do_judge
\* enters sandbox.test
Submit ==
    /\ pc = "serving"
    /\ SchedulerFree(0)
    /\ Cardinality(TestCalls) < MaxCalls
    /\ Len(subs) < MaxSubs
    /\ \E code \in Codes :
          /\ subs' = Append(subs, [code |-> code, result |-> None, judged |-> FALSE])
          /\ calls' = Append(calls, NewCall("Test", Len(subs) + 1, TestCommand(code)))
    /\ UNCHANGED <<pc, sandbox, fs, nextDir, containers, frame>>

\* rejudge: do_judge on a submission that exists
Rejudge ==
    /\ pc = "serving"
    /\ SchedulerFree(0)
    /\ Cardinality(TestCalls) < MaxCalls
    /\ \E s \in 1..Len(subs) :
          calls' = Append(calls, NewCall("Test", s, TestCommand(subs[s].code)))
    /\ UNCHANGED <<pc, sandbox, fs, nextDir, containers, subs, frame>>

\* run_command: ciborium::into_writer(&command, &mut command_buf), then
\* spawn_blocking; a serialization error returns at once (and fails the
\* expect of Sandbox::new)
EncodeCommand(i) ==
    /\ calls[i].step = "encode"
    /\ SchedulerFree(i)
    /\ \E ok \in BOOLEAN :
          IF ok
          THEN /\ calls' = [calls EXCEPT ![i] =
                     [@ EXCEPT !.step = "spawned", !.enc = "scheduler"]]
               /\ UNCHANGED pc
          ELSE LET c == AfterJoin([calls[i] EXCEPT !.enc = "scheduler"],
                                  OutcomeErr(Err("serializing runner command")))
               IN /\ calls' = [calls EXCEPT ![i] = c]
                  /\ pc' = IF c.kind = "Versions" /\ c.step = "done" THEN "aborted" ELSE pc
    /\ UNCHANGED <<sandbox, fs, nextDir, containers, subs, frame>>

\* run_container: TempDir::new()
CreateTempDir(i) ==
    /\ calls[i].step = "spawned"
    /\ RunThread = "scheduler" => SchedulerFree(i)
    /\ \E ok \in BOOLEAN :
          IF ok
          THEN LET d == NewTempDirName(nextDir) IN
               /\ fs' = MakeDir(fs, d)
               /\ nextDir' = nextDir + 1
               /\ calls' = [calls EXCEPT ![i] =
                     [@ EXCEPT !.step = "tempdir", !.dir = d, !.made = @ + 1,
                               !.run = RunThread]]
          ELSE /\ calls' = [calls EXCEPT ![i] =
                     Return([@ EXCEPT !.run = RunThread], RetErr(Err("creating temp dir")))]
               /\ UNCHANGED <<fs, nextDir>>
    /\ UNCHANGED <<pc, sandbox, containers, subs, frame>>

\* run_container: std::fs::write(temp_dir.join("command"), raw_command)
WriteCommand(i) ==
    /\ calls[i].step = "tempdir"
    /\ \E ok \in BOOLEAN :
          IF ok
          THEN /\ fs' = WriteFile(fs, calls[i].dir, calls[i].cmd)
               /\ calls' = [calls EXCEPT ![i] = [@ EXCEPT !.step = "written"]]
          ELSE /\ fs' = DropTempDir(fs, calls[i].dir)
               /\ calls' = [calls EXCEPT ![i] =
                     Return(@, RetErr(Err("writing command to temp dir")))]
    /\ UNCHANGED <<pc, sandbox, nextDir, containers, subs, frame>>

\* run_container: temp_dir.to_str(), then Command::new("docker").args([..]).output()
\* up to the start of the container
LaunchContainer(i) ==
    /\ calls[i].step = "written"
    /\ \E how \in {"not_utf8", "no_engine", "started"} :
          IF how = "started"
          THEN /\ containers' = containers \cup
                     {DockerRun(i, calls[i].launches + 1, ImageOf(sandbox.val),
                                calls[i].dir)}
               /\ calls' = [calls EXCEPT ![i] =
                     [@ EXCEPT !.step = "running", !.launches = @ + 1]]
               /\ UNCHANGED fs
          ELSE /\ fs' = DropTempDir(fs, calls[i].dir)
               /\ calls' = [calls EXCEPT ![i] =
                     Return(@, RetErr(Err(IF how = "not_utf8"
                         THEN "temporary directory path is not valid UTF-8"
                         ELSE "running docker")))]
               /\ UNCHANGED containers
    /\ UNCHANGED <<pc, sandbox, nextDir, subs, frame>>

\* the container reads /input/command, runs, writes its reply and exits (and
\* --rm removes it); output() returns, the status is tested and the TempDir
\* is dropped
ContainerExit(i) ==
    /\ calls[i].step = "running"
    /\ \E k \in containers, status \in ExitStatuses, whole \in BOOLEAN :
          /\ k.call = i
          /\ LET cmd == ReadFile(fs, k.mount.source)
                 stdout == IF cmd.some /\ whole
                           THEN Stdout(TRUE, RunnerReply(cmd.val)) ELSE Garbage
                 stderr == IF status = 0 THEN "" ELSE "killed"
             IN /\ containers' = containers \ {k}
                /\ calls' = [calls EXCEPT ![i] =
                      Return([@ EXCEPT !.exit = Exit(status, stdout, stderr, cmd)],
                             ExitResult(status, stdout, stderr))]
    /\ fs' = DropTempDir(fs, calls[i].dir)
    /\ UNCHANGED <<pc, sandbox, nextDir, subs, frame>>

\* a panic inside the closure given to spawn_blocking: the stack unwinds and
\* the TempDir, if there is one, is dropped
WorkerPanic(i) ==
    /\ calls[i].step \in {"spawned", "tempdir", "written"}
    /\ fs' = DropTempDir(fs, calls[i].dir)
    /\ calls' = [calls EXCEPT ![i] = Return([@ EXCEPT !.run = RunThread], RetPanic)]
    /\ UNCHANGED <<pc, sandbox, nextDir, containers, subs, frame>>

\* Sandbox::new: run_command(Command::Versions) returns; expect, then the
\* response becomes the version table
FinishVersions(i) ==
    /\ calls[i].step = "joined"
    /\ calls[i].kind = "Versions"
    /\ SchedulerFree(i)
    /\ LET o == JoinOutcome(calls[i].ret)
           c == AfterJoin(calls[i], o)
       IN /\ calls' = [calls EXCEPT ![i] = c]
          /\ IF c.step = "done"
             THEN IF o.t = "ok"
                  THEN /\ sandbox' = Some([sandbox.val EXCEPT !.versions = o.v.reason])
                       /\ pc' = "constructed"
                  ELSE /\ pc' = "aborted"
                       /\ UNCHANGED sandbox
             ELSE UNCHANGED <<pc, sandbox>>
    /\ UNCHANGED <<fs, nextDir, containers, subs, frame>>

\* do_judge: sandbox.test(..) returns; an error becomes the error response
FinishTest(i) ==
    /\ calls[i].step = "joined"
    /\ calls[i].kind = "Test"
    /\ SchedulerFree(i)
    /\ calls' = [calls EXCEPT ![i] = AfterJoin(@, JoinOutcome(@.ret))]
    /\ UNCHANGED <<pc, sandbox, fs, nextDir, containers, subs, frame>>

\* do_judge: update submissions set judged_time = ?, result = ? where id = ?
StoreVerdict(i) ==
    /\ calls[i].step = "store"
    /\ SchedulerFree(i)
    /\ \E ok \in BOOLEAN :
          IF ok
          THEN /\ subs' = [subs EXCEPT ![calls[i].sub] =
                     [@ EXCEPT !.result = ColumnAfterStore(@, calls[i].outcome.v),
                               !.judged = TRUE]]
               /\ calls' = [calls EXCEPT ![i] = [@ EXCEPT !.step = "done", !.stored = TRUE]]
          ELSE /\ calls' = [calls EXCEPT ![i] = [@ EXCEPT !.step = "done"]]
               /\ UNCHANGED subs
    /\ UNCHANGED <<pc, sandbox, fs, nextDir, containers, frame>>

RunNext ==
    \/ StartVersions
    \/ Serve
    \/ Submit
    \/ Rejudge
    \/ \E i \in 1..Len(calls) : EncodeCommand(i)
    \/ \E i \in 1..Len(calls) : CreateTempDir(i)
    \/ \E i \in 1..Len(calls) : WriteCommand(i)
    \/ \E i \in 1..Len(calls) : LaunchContainer(i)
    \/ \E i \in 1..Len(calls) : ContainerExit(i)
    \/ \E i \in 1..Len(calls) : WorkerPanic(i)
    \/ \E i \in 1..Len(calls) : FinishVersions(i)
    \/ \E i \in 1..Len(calls) : FinishTest(i)
    \/ \E i \in 1..Len(calls) : StoreVerdict(i)

RunSpec == RunInit /\ [][RunNext]_vars

------------------------------------------------------------------------

----------------------------------------------------------------------------
(* Properties of container runs (checked under RunSpec).                    *)

Invocations == 1..Len(calls)

Returned(c) == c.step \in {"joined", "store", "done"}

Resolved(c) == c.outcome.t # "pending"

ContainersOf(i) == {k \in containers : k.call = i}

DirExists(d) == \E r \in fs : r.dir = d

\* the names TempDir::new has handed out so far
UsedNames == 1..(nextDir - 1)

\* C13: every container run (test, rejudge, and the startup Versions call)
\* has a temporary directory of its own and a container of its own: the
\* directory an invocation creates has a name no invocation had before, no
\* two invocations in flight hold the same directory, every container mounts
\* the directory of its own invocation and no other container mounts it, and
\* the command a container reads is the command of its own invocation.
C13_Isolation ==
    /\ [](/\ \A i, j \in Invocations :
               i # j /\ calls[i].dir # 0 /\ calls[j].dir # 0 =>
                   calls[i].dir # calls[j].dir
          /\ \A i \in Invocations :
               /\ calls[i].dir # 0 => calls[i].dir \in UsedNames
               /\ calls[i].made <= 1
               /\ calls[i].exit.some => calls[i].exit.read = Some(calls[i].cmd)
          /\ \A k \in containers :
               /\ k.mount.source # 0
               /\ k.mount.source = calls[k.call].dir
          /\ \A k1, k2 \in containers :
               k1 # k2 => k1.mount.source # k2.mount.source /\ k1.call # k2.call)
    /\ [][\A i \in Invocations :
            /\ calls'[i].made > calls[i].made =>
                  /\ calls'[i].dir \notin UsedNames
                  /\ calls'[i].dir \in UsedNames'
            /\ calls'[i].launches > calls[i].launches =>
                  \E k \in containers' \ containers : k.call = i]_vars

\* a judge and a rejudge of the same submission with their containers running
\* at the same time, after the Versions run has finished
C13_Witness ==
    \E i, j \in Invocations :
        /\ i # j
        /\ calls[i].sub = calls[j].sub
        /\ calls[i].step = "running"
        /\ calls[j].step = "running"
        /\ \E v \in Invocations : calls[v].kind = "Versions" /\ calls[v].exit.some

\* C14: the temporary directory of a container run exists as long as its
\* container is running, and is gone once the run has returned, whichever way
\* it returned (output, write failure, engine failure, non-UTF-8 path,
\* non-zero exit status): every directory that exists is held by a run that
\* has not returned.
C14_ScopedTeardown ==
    /\ \A k \in containers : DirExists(k.mount.source)
    /\ \A i \in Invocations : calls[i].step = "running" => DirExists(calls[i].dir)
    /\ \A r \in fs :
          \E i \in Invocations : calls[i].dir = r.dir /\ ~Returned(calls[i])

\* one run returned its output, one returned a non-zero exit status, and a
\* third has its container running
C14_Witness ==
    \E i, j, k \in Invocations :
        /\ calls[i].ret.t = "ok" /\ calls[i].made = 1
        /\ calls[j].ret.e = BadStatus(1, "killed") /\ calls[j].made = 1
        /\ calls[k].step = "running"
        /\ ContainersOf(k) # {}

\* C15: when the container process exits with a non-zero status, the run
\* returns the internal error with that status and the captured standard
\* error text; the standard output is not returned and is never decoded.
C15_NonZeroExitIsError ==
    \A i \in Invocations :
        LET c == calls[i]
        IN c.exit.some /\ c.exit.status # 0 =>
               /\ c.ret = RetErr(BadStatus(c.exit.status, c.exit.stderr))
               /\ c.ret.out = None
               /\ c.dec = "none"
               /\ Resolved(c) => c.outcome = OutcomeErr(BadStatus(c.exit.status, c.exit.stderr))
               /\ ~c.stored

\* a test whose container wrote a complete reply and then exited with status
\* 1, after the caller got the result
C15_Witness ==
    \E i \in TestCalls :
        /\ calls[i].exit.some
        /\ calls[i].exit.status = 1
        /\ calls[i].exit.stdout.decodable
        /\ calls[i].step = "done"

EncodeFailed(c) == c.outcome.e.ctx = "serializing runner command"

\* C16 as first stated: for every test call the encoding, the container run
\* and the decoding all execute on the blocking worker thread, none of them
\* on the scheduler thread, and the future resolves only after the worker
\* completes.
C16_WholeSequenceOnWorker ==
    \A i \in TestCalls :
        /\ calls[i].enc \in {"none", "worker"}
        /\ calls[i].run \in {"none", "worker"}
        /\ calls[i].dec \in {"none", "worker"}
        /\ Resolved(calls[i]) => calls[i].run = "worker" /\ calls[i].ret.t # "none"

\* C16: for every test call the container run executes on a blocking worker
\* thread and never on the scheduler thread; the encoding before it and the
\* decoding after it execute on the caller's (scheduler) thread; when the
\* encoding succeeded, the future resolves only after the worker completes,
\* and when it failed, the future resolves without a worker.
C16_RunOnWorker ==
    \A i \in TestCalls :
        /\ calls[i].run \in {"none", "worker"}
        /\ calls[i].made > 0 \/ calls[i].launches > 0 => calls[i].run = "worker"
        /\ calls[i].enc \in {"none", "scheduler"}
        /\ calls[i].dec \in {"none", "scheduler"}
        /\ Resolved(calls[i]) /\ ~EncodeFailed(calls[i]) =>
              /\ calls[i].run = "worker"
              /\ calls[i].ret.t # "none"
              /\ calls[i].dir = 0
              /\ ContainersOf(i) = {}
        /\ Resolved(calls[i]) /\ EncodeFailed(calls[i]) => calls[i].run = "none"

\* a test call that resolved after encoding, running its container and
\* decoding the output
C16_Witness ==
    \E i \in TestCalls :
        /\ Resolved(calls[i])
        /\ calls[i].enc = "scheduler"
        /\ calls[i].run = "worker"
        /\ calls[i].dec = "scheduler"
        /\ calls[i].exit.some

\* C17: when the worker thread of a container run panics, the awaiting
\* caller gets the panic itself: the call never resolves to a verdict or to
\* an ordinary error, nothing is stored for it, and a panic in the startup
\* Versions run aborts the startup.
C17_PanicPropagates ==
    \A i \in Invocations :
        calls[i].ret.t = "panic" =>
            /\ Resolved(calls[i]) => calls[i].outcome = OutcomePanic
            /\ calls[i].step \in {"joined", "done"}
            /\ ~calls[i].stored
            /\ calls[i].dec = "none"
            /\ calls[i].kind = "Versions" /\ Resolved(calls[i]) => pc = "aborted"

\* a test call whose worker panicked after it had made its directory, with
\* the panic delivered to the caller
C17_Witness ==
    \E i \in TestCalls :
        /\ calls[i].ret.t = "panic"
        /\ calls[i].made = 1
        /\ calls[i].step = "done"
        /\ calls[i].outcome.t = "panic"

Undecodable(c) == c.ret.t = "ok" /\ ~c.ret.out.val.decodable

\* C18: a command that cannot be serialized makes run_command return the
\* internal error with no temporary directory and no container created; an
\* output that cannot be deserialized makes run_command return the internal
\* error, never a repaired, partial or default response.
C18_CodecFailures ==
    \A i \in Invocations :
        /\ EncodeFailed(calls[i]) =>
              /\ calls[i].made = 0
              /\ calls[i].launches = 0
              /\ ContainersOf(i) = {}
              /\ calls[i].run = "none"
              /\ calls[i].outcome = OutcomeErr(Err("serializing runner command"))
              /\ ~calls[i].stored
        /\ Undecodable(calls[i]) /\ Resolved(calls[i]) =>
              /\ calls[i].outcome = OutcomeErr(Err("deserializing response from runner"))
              /\ ~calls[i].stored

\* one test call that failed to serialize its command and one whose
\* container exited with status 0 and an output that does not decode
C18_Witness ==
    \E i, j \in TestCalls :
        /\ EncodeFailed(calls[i]) /\ calls[i].step = "done"
        /\ Undecodable(calls[j]) /\ calls[j].step = "done"
        /\ calls[j].exit.status = 0 /\ ~calls[j].exit.stdout.decodable

\* C19: a call launches at most one container: a run that failed at any step
\* (temp-dir creation, command write, engine invocation, non-zero exit,
\* decode) gives its error to the caller, and no second container is launched
\* for the same call.
C19_NoRetry ==
    \A i \in Invocations :
        /\ calls[i].launches <= 1
        /\ calls[i].made <= 1
        /\ Cardinality(ContainersOf(i)) <= 1
        /\ ContainersOf(i) # {} => calls[i].launches = 1 /\ calls[i].step = "running"
        /\ calls[i].ret.t = "err" /\ calls[i].step # "joined" =>
              /\ calls[i].step = "done"
              /\ calls[i].outcome = OutcomeErr(calls[i].ret.e)
        /\ Undecodable(calls[i]) /\ calls[i].step # "joined" =>
              /\ calls[i].step = "done"
              /\ calls[i].outcome.t = "err"

\* one test call ended with the error of a non-zero exit and another with a
\* decode error, each after its single container
C19_Witness ==
    \E i, j \in TestCalls :
        /\ calls[i].step = "done" /\ calls[i].outcome = OutcomeErr(BadStatus(1, "killed"))
        /\ calls[j].step = "done" /\ Undecodable(calls[j])
        /\ calls[i].launches = 1 /\ calls[j].launches = 1

\* the container of the call exited with status 0 and a reply that decodes
CleanReply(c) == c.exit.some /\ c.exit.status = 0 /\ c.exit.stdout.decodable

\* the judging step of call i wrote the result column in this step
Stores(i) == calls[i].step = "store" /\ calls'[i].stored

\* C20: a reply that decodes to InvalidProgram(reason) from a container that
\* exited successfully makes test return Ok(InvalidProgram(reason)); the
\* judging step stores that verdict as the result of the submission, a text
\* starting with 'i', the same way it stores an Ok verdict (the column is the
\* repr of the verdict); the internal error comes only from failures of the
\* sandbox machinery, never from a clean reply.
C20_InvalidProgramIsVerdict ==
    /\ [](\A i \in TestCalls :
            /\ CleanReply(calls[i]) /\ Resolved(calls[i]) =>
                  calls[i].outcome = OutcomeOk(calls[i].exit.stdout.val)
            /\ calls[i].outcome.t = "err" => ~CleanReply(calls[i])
            /\ calls[i].step = "store" => calls[i].outcome.t = "ok")
    /\ [][\A i \in TestCalls :
            Stores(i) =>
                LET v == calls[i].outcome.v
                    row == subs'[calls[i].sub]
                IN /\ row.result = Some(Repr(v))
                   /\ row.judged
                   /\ v.tag = "InvalidProgram" => Head(row.result.val) = "i"
                   /\ v.tag = "Ok" => Head(row.result.val) \in {"o", "e"}]_vars

\* a submission that does not compile has been judged, and its row holds
\* the InvalidProgram verdict as text
C20_Witness ==
    \E i \in TestCalls :
        /\ calls[i].stored
        /\ CleanReply(calls[i])
        /\ calls[i].outcome = OutcomeOk(InvalidProgram(CompileError))
        /\ subs[calls[i].sub].result = Some(<<"i">> \o CompileError)

\* what the invocation returns when it runs with no other invocation in
\* flight and nothing fails: the reply of the runner to its own command
SequentialVerdict(c) == RunnerReply(c.cmd)

\* C21: with the deterministic runner, a test invocation that returns a
\* verdict returns the verdict it would return running alone, whatever other
\* invocations are in flight; the response it returns is the one written by
\* the container that read its own command bytes.
C21_ConcurrentEqualsSequential ==
    \A i \in TestCalls :
        /\ calls[i].exit.some => calls[i].exit.read = Some(calls[i].cmd)
        /\ calls[i].exit.some /\ calls[i].exit.stdout.decodable =>
              calls[i].exit.stdout.val = SequentialVerdict(calls[i])
        /\ calls[i].outcome.t = "ok" =>
              /\ calls[i].outcome.v = SequentialVerdict(calls[i])
              /\ calls[i].outcome.v = calls[i].exit.stdout.val
              /\ calls[i].exit.read = Some(calls[i].cmd)

\* a call returned the verdict of its own program while the container of a
\* call with a different program was running
C21_Witness ==
    \E i, j \in TestCalls :
        /\ calls[i].cmd # calls[j].cmd
        /\ calls[i].outcome.t = "ok"
        /\ calls[i].outcome.v = RunnerVerdict(calls[i].cmd.code)
        /\ calls[j].step = "running"
        /\ RunnerVerdict(calls[j].cmd.code) # calls[i].outcome.v

Hung(i) == calls[i].step = "running"

\* C22: a call whose container is running stays unresolved, with its worker
\* not returned and its directory in place, until the container exits: the
\* only step that takes it out of that state is the exit of its container,
\* and no timeout error exists; meanwhile every other invocation can take
\* its next step, on the scheduler thread or on a worker.
C22_NoHostSideBound ==
    /\ [](\A i \in Invocations :
            /\ Hung(i) =>
                  /\ ~Resolved(calls[i])
                  /\ calls[i].ret = NoRet
                  /\ DirExists(calls[i].dir)
                  /\ ContainersOf(i) # {}
                  /\ \A j \in Invocations \ {i} :
                        /\ calls[j].step = "encode" => ENABLED EncodeCommand(j)
                        /\ calls[j].step = "spawned" => ENABLED CreateTempDir(j)
                        /\ calls[j].step = "tempdir" => ENABLED WriteCommand(j)
                        /\ calls[j].step = "written" => ENABLED LaunchContainer(j)
                        /\ calls[j].step = "running" => ENABLED ContainerExit(j)
                        /\ calls[j].step = "joined" => ENABLED FinishTest(j)
                        /\ calls[j].step = "store" => ENABLED StoreVerdict(j)
            /\ Resolved(calls[i]) /\ calls[i].outcome.t = "err" =>
                  calls[i].outcome.e.ctx \in
                      {"serializing runner command", "creating temp dir",
                       "writing command to temp dir",
                       "temporary directory path is not valid UTF-8", "running docker",
                       "running docker: got bad status",
                       "deserializing response from runner"})
    /\ [][\A i \in Invocations :
            Hung(i) /\ ~Hung(i)' =>
                /\ ContainersOf(i)' = {}
                /\ calls'[i].exit.some
                /\ calls'[i].step = "joined"
                /\ ~Resolved(calls'[i])]_vars

\* the container of one call is still running after a call made later has
\* run its own container and stored its verdict
C22_Witness ==
    \E i, j \in TestCalls :
        /\ i < j
        /\ Hung(i)
        /\ calls[j].stored
        /\ calls[j].exit.some

Constructed == pc \in {"constructed", "serving"}

\* C23: once Sandbox::new has returned, no step of any test invocation
\* changes the image handle or the version table, and every container a test
\* launches runs the image the build produced.
C23_WriteOnce ==
    /\ [](/\ \A k \in containers : k.image = image_id.val
          /\ sandbox.some => sandbox.val.image_id = image_id.val
          /\ Constructed => sandbox.val.versions = AllVersions)
    /\ [][Constructed => sandbox' = sandbox /\ image_id' = image_id]_vars

\* while serving, one test has finished and the container of another is
\* running on the built image
C23_Witness ==
    /\ pc = "serving"
    /\ \E i, j \in TestCalls :
          /\ calls[i].step = "done"
          /\ calls[i].launches = 1
          /\ ContainersOf(j) # {}
          /\ \A k \in ContainersOf(j) : k.image = BuiltImage

\* C24: every container a run launches is removed on exit, has the memory
\* ceiling of 100m, has no network, and has one bind mount: the directory of
\* its own invocation, read-only, at /input.
C24_LaunchShape ==
    \A k \in containers :
        /\ k.rm
        /\ k.memory = "100m"
        /\ k.network = "none"
        /\ k.mount = [source |-> calls[k.call].dir, destination |-> "/input",
                      readonly |-> TRUE]
        /\ DirExists(k.mount.source)
        /\ DOMAIN k = {"call", "n", "image", "rm", "memory", "network", "mount"}

\* the containers of two test invocations running at once
C24_Witness ==
    \E k1, k2 \in containers :
        /\ k1.call # k2.call
        /\ calls[k1.call].kind = "Test"
        /\ calls[k2.call].kind = "Test"
        /\ k1.mount.readonly /\ k2.mount.readonly

FailedBeforeLaunch(c) ==
    c.ret.e.ctx \in {"creating temp dir", "writing command to temp dir"}

\* C25: within one container run the directory is created first, then the
\* command is written into it, then the container is launched, then the
\* output is collected; at the launch the command file holds the whole
\* command, and a run whose directory creation or command write failed never
\* launches a container.
C25_StepOrder ==
    /\ [](\A i \in Invocations :
            /\ FailedBeforeLaunch(calls[i]) =>
                  calls[i].launches = 0 /\ ~calls[i].exit.some /\ ContainersOf(i) = {}
            /\ calls[i].launches > 0 => calls[i].made > 0
            /\ calls[i].exit.some => calls[i].launches > 0
            /\ \A k \in ContainersOf(i) :
                  ReadFile(fs, k.mount.source) = Some(calls[i].cmd))
    /\ [][\A i \in Invocations :
            /\ calls'[i].made > calls[i].made =>
                  calls[i].step = "spawned" /\ calls'[i].step = "tempdir"
            /\ calls'[i].step = "written" /\ calls[i].step # "written" =>
                  /\ calls[i].step = "tempdir"
                  /\ ReadFile(fs', calls[i].dir) = Some(calls[i].cmd)
            /\ calls'[i].launches > calls[i].launches =>
                  /\ calls[i].step = "written"
                  /\ ReadFile(fs, calls[i].dir) = Some(calls[i].cmd)
                  /\ calls'[i].step = "running"
            /\ calls'[i].exit.some /\ ~calls[i].exit.some =>
                  calls[i].step = "running"]_vars

\* one run went through all four steps and another stopped at a failed
\* command write
C25_Witness ==
    \E i, j \in TestCalls :
        /\ calls[i].exit.some /\ calls[i].launches = 1 /\ calls[i].made = 1
        /\ calls[j].ret.e.ctx = "writing command to temp dir"
        /\ calls[j].made = 1 /\ calls[j].launches = 0

----------------------------------------------------------------------------
(* Further properties of the result codec (checked under CodecSpec).        *)

OtherTag(t) == IF t = "o" THEN "e" ELSE "o"

OWrong == <<"o", "w", ",", "1", "3", "0", ",", "2", "0", ";">>

\* C26: the full decoder does not tell the 'o' tag from the 'e' tag: what it
\* returns for a text with one of the two tags is what it returns for the
\* same text with the other tag (both fail or both give the same case list);
\* the tag is not compared with the kinds, so "ow,130,20;" decodes to a list
\* with a Wrong case while the simple decoder reads the same text as Correct.
C26_TagsNotDistinguished ==
    /\ (result.some /\ result.val # <<>> /\ full # Pending) =>
          (Head(result.val) \in {"o", "e"} =>
              full = FromStr(<<OtherTag(Head(result.val))>> \o Tail(result.val)))
    /\ (result = Some(OWrong) /\ full # Pending) =>
          full = DecodeOk(OkResp(<<CaseResult("Wrong", 130, 20)>>))
    /\ (result = Some(OWrong) /\ simple # "pending") => simple = "Correct"

\* the text "ow,130,20;" read by both decoders
C26_Witness ==
    /\ result = Some(OWrong)
    /\ full.st = "ok"
    /\ full.val.cases[1].kind = "Wrong"
    /\ simple = "Correct"

----------------------------------------------------------------------------
(* Further properties of judging (checked under RunSpec).                   *)

Rows == 1..Len(subs)

\* C27: a test call that ends in an error (or a panic) writes nothing: the
\* row of a submission changes only in the step in which a call that got a
\* verdict for it stores that verdict, so a new submission stays null and
\* unjudged and a rejudged one keeps its result; the result of a row is
\* always null or the text of a verdict a completed test call returned for
\* that submission.
C27_FailureLeavesVerdict ==
    /\ [](\A s \in Rows :
            \/ subs[s].result = None /\ ~subs[s].judged
            \/ /\ subs[s].judged
               /\ \E i \in TestCalls :
                     /\ calls[i].sub = s
                     /\ calls[i].outcome.t = "ok"
                     /\ calls[i].stored
                     /\ subs[s].result = Some(Repr(calls[i].outcome.v)))
    /\ [][/\ \A s \in Rows :
               subs'[s] # subs[s] =>
                   \E i \in TestCalls :
                       /\ calls[i].sub = s
                       /\ calls[i].step = "store"
                       /\ calls[i].outcome.t = "ok"
                       /\ calls'[i].stored
          /\ \A i \in TestCalls :
               /\ calls'[i].outcome.t \in {"err", "panic"} =>
                     calls'[i].step = "done" /\ ~calls'[i].stored
               /\ ~Resolved(calls[i]) /\ calls'[i].outcome.t \in {"err", "panic"} =>
                     subs' = subs]_vars

\* a judged submission whose rejudge ended in an error still holds the
\* verdict of the first judging
C27_Witness ==
    \E i, j \in TestCalls :
        /\ i < j
        /\ calls[i].sub = calls[j].sub
        /\ calls[i].stored
        /\ calls[j].step = "done"
        /\ calls[j].outcome.t = "err"
        /\ subs[calls[i].sub].result = Some(Repr(calls[i].outcome.v))

----------------------------------------------------------------------------
(* Tests: the test corpus of a problem (checked under TestsSpec).           *)

TEST_CASE_SEPARATOR == <<"\n", "=", "=", "=", "\n">>
TEST_IN_OUT_SEPARATOR == <<"\n", "-", "-", "\n">>

\* str::find with a string pattern: the first index at which pat starts, 0 if none
FindStr(s, pat) ==
    LET at == {i \in 1..(Len(s) - Len(pat) + 1) : SubSeq(s, i, i + Len(pat) - 1) = pat}
    IN IF at = {} THEN 0 ELSE CHOOSE i \in at : \A j \in at : i <= j

\* str::split_once with a string pattern
SplitOnceStr(s, pat) ==
    LET i == FindStr(s, pat) IN
    IF i = 0 THEN None
    ELSE Some(<<SubSeq(s, 1, i - 1), SubSeq(s, i + Len(pat), Len(s))>>)

\* str::split with a string pattern: the pieces between the matches, found
\* left to right without overlap; at least one piece
RECURSIVE SplitStr(_, _)
SplitStr(s, pat) ==
    LET i == FindStr(s, pat) IN
    IF i = 0 THEN <<s>>
    ELSE <<SubSeq(s, 1, i - 1)>> \o SplitStr(SubSeq(s, i + Len(pat), Len(s)), pat)

parse_tests(text) ==
    LET segs == SplitStr(text, TEST_CASE_SEPARATOR)
    IN [i \in 1..Len(segs) |-> SplitOnceStr(segs[i], TEST_IN_OUT_SEPARATOR)]

\* Result<(), TestsFromStrError>
ValidOk == [t |-> "Ok", index |-> 0]
NoTests == [t |-> "NoTests", index |-> 0]
InvalidTest(index) == [t |-> "InvalidTest", index |-> index]

\* tests.try_for_each(|res| res.map(|_| ()))?: the first error among the
\* items not yet taken from the iterator
RECURSIVE TryForEach(_, _)
TryForEach(ts, i) ==
    IF i > Len(ts) THEN ValidOk
    ELSE IF ~ts[i].some THEN InvalidTest(i - 1)
    ELSE TryForEach(ts, i + 1)

validate_FirstOnly(text) ==
    LET ts == parse_tests(text) IN
    IF Len(ts) = 0 THEN NoTests
    ELSE IF ~ts[1].some THEN InvalidTest(0)
    ELSE ValidOk

\* Tests::validate: next().ok_or(NoTests)?? on the enumerated items, then
\* try_for_each on the rest
validate(text) ==
    LET ts == parse_tests(text) IN
    IF Len(ts) = 0 THEN NoTests
    ELSE IF ~ts[1].some THEN InvalidTest(0)
    ELSE TryForEach(ts, 2)

\* Tests::cases, iterated to its end: parse_tests(..).map(Option::unwrap)
TestsCases(inner) ==
    LET ts == parse_tests(inner) IN
    IF \E i \in 1..Len(ts) : ~ts[i].some THEN [t |-> "panic", list |-> <<>>]
    ELSE [t |-> "ok", list |-> [i \in 1..Len(ts) |-> ts[i].val]]

\* the pieces the corpus texts are made of
TestsPieces ==
    { <<"a">>, <<"\n">>, <<"-">>, <<"=">>,
      TEST_IN_OUT_SEPARATOR, TEST_CASE_SEPARATOR,
      <<"\n", "-", "-">>, <<"=", "=", "\n">> }

RECURSIVE Concat(_)
Concat(ps) == IF ps = <<>> THEN <<>> ELSE Head(ps) \o Concat(Tail(ps))

TestsTexts == {Concat(ps) : ps \in SeqsUpTo(TestsPieces, MaxPieces)}

StartIdle ==
    /\ pc = "idle"
    /\ child = [state |-> "none", out |-> <<>>, status |-> 0]
    /\ image_id = None
    /\ sandbox = None
    /\ runs = <<>>

TestsInit ==
    /\ raw \in TestsTexts
    /\ validated = NotValidated
    /\ tests = None
    /\ pairs = NotIterated
    /\ CodecIdle
    /\ StartIdle
    /\ AuxIdle
    /\ RunIdle
    /\ TimeIdle
    /\ AuthIdle
    /\ ResetIdle

\* impl TryFrom<String> for Tests; a Tests value is its inner string
TestsTryFrom ==
    /\ validated = NotValidated
    /\ validated' = validate(raw)
    /\ tests' = IF validate(raw) = ValidOk THEN Some(raw) ELSE None
    /\ UNCHANGED <<raw, pairs, codecVars, startVars, auxVars, runVars,
                   timeVars, authVars, resetVars>>

\* a page iterates problem.tests.cases()
TestsIterate ==
    /\ tests.some
    /\ pairs = NotIterated
    /\ pairs' = TestsCases(tests.val)
    /\ UNCHANGED <<raw, validated, tests, codecVars, startVars, auxVars, runVars,
                   timeVars, authVars, resetVars>>

TestsNext == TestsTryFrom \/ TestsIterate

TestsSpec == TestsInit /\ [][TestsNext]_vars

\* the segments of a corpus text, and whether a text contains a pattern
Segments(text) == SplitStr(text, TEST_CASE_SEPARATOR)
Contains(s, pat) ==
    \E i \in 1..(Len(s) - Len(pat) + 1) : SubSeq(s, i, i + Len(pat) - 1) = pat
Offending(text) ==
    {i \in 1..Len(Segments(text)) : ~Contains(Segments(text)[i], TEST_IN_OUT_SEPARATOR)}

\* C28: validation of a corpus succeeds exactly when every segment between
\* the case separators contains the input/output separator; a failure is
\* InvalidTest with the zero-based index of the first offending segment and
\* never NoTests; iterating the cases of a validated corpus gives at least
\* one pair and does not panic.
C28_ValidatedCorpus ==
    /\ validated # NotValidated =>
          /\ validated.t # "NoTests"
          /\ (validated = ValidOk) <=> (Offending(raw) = {})
          /\ validated # ValidOk =>
                /\ validated.t = "InvalidTest"
                /\ validated.index + 1 \in Offending(raw)
                /\ \A i \in Offending(raw) : validated.index + 1 <= i
    /\ tests.some <=> validated = ValidOk
    /\ pairs # NotIterated =>
          /\ pairs.t = "ok"
          /\ Len(pairs.list) >= 1
          /\ Len(pairs.list) = Len(Segments(raw))

\* a corpus of two cases was validated and iterated
C28_Witness ==
    /\ validated = ValidOk
    /\ pairs.t = "ok"
    /\ Len(pairs.list) = 2

----------------------------------------------------------------------------
(* Sessions: the auth layer in front of every route (checked under          *)
(* SessionSpec).  extract_user awaits each query, so requests interleave    *)
(* between a query being issued and the database running it.                *)

minutes(v) == v * 60
hours(v) == minutes(v) * 60
days(v) == hours(v) * 24

TOKEN_DURATION == days(5)
TOKEN_DURATION_GRANULARITY == minutes(5)

\* i64::abs
Abs(x) == IF x < 0 THEN 0 - x ELSE x

\* Timestamp::is_before
is_before(a, b) == a < b

Tokens == {"t1"}
UserIds == {"u1"}

\* the Cookie header of a request: absent, without a parsable token, or a token
Cookies == {"absent", "garbage"} \cup Tokens

\* the amounts by which the clock advances between two readings
Jumps == {1, TOKEN_DURATION_GRANULARITY, TOKEN_DURATION}

SessionRow(token, user, expiration) ==
    [token |-> token, user |-> user, expiration |-> expiration]

RowsOf(token) == {r \in sessions : r.token = token}

\* Result<Result<User, NoUser>, ErrorResponse>
ExtractPending == [t |-> "pending", user |-> "", remove |-> FALSE]
ExtractUser(user) == [t |-> "user", user |-> user, remove |-> FALSE]
ExtractNoUser(remove) == [t |-> "nouser", user |-> "", remove |-> remove]
ExtractError == [t |-> "error", user |-> "", remove |-> FALSE]

NoResponse == [status |-> "none", user |-> "", removal |-> FALSE]

\* layer_inner: the user extension the route sees and the cookie removal
\* added to its response; a database error is answered without the route
layer_inner(res) ==
    IF res.t = "error" THEN [status |-> "error", user |-> "", removal |-> FALSE]
    ELSE [status |-> "handled",
          user |-> IF res.t = "user" THEN res.user ELSE "",
          removal |-> res.t = "nouser" /\ res.remove]

NoWrite == [op |-> "none", expiration |-> Null]
DeleteSession == [op |-> "delete", expiration |-> Null]
UpdateSession(expiration) == [op |-> "update", expiration |-> expiration]

NewRequest(cookie) ==
    [cookie |-> cookie, step |-> "start", user |-> "", expiration |-> Null,
     now |-> Null, write |-> NoWrite, res |-> ExtractPending,
     response |-> NoResponse]

\* the request leaves the layer: extract_user's locals are gone; `write`
\* keeps the kind of statement the database ran for it
Respond(r, res) ==
    [NewRequest(r.cookie) EXCEPT
        !.step = "done", !.res = res, !.response = layer_inner(res),
        !.write = IF res.t = "error" THEN NoWrite
                  ELSE [r.write EXCEPT !.expiration = Null]]

NeedsRewrite_Always(expiration, new_expiration) == TRUE

\* (inner.expiration - new_expiration).abs() > TOKEN_DURATION_GRANULARITY
NeedsRewrite(expiration, new_expiration) ==
    Abs(expiration - new_expiration) > TOKEN_DURATION_GRANULARITY

SessionInit ==
    /\ clock = 0
    /\ ticks = 0
    /\ sessions = {}
    /\ reqs = <<>>
    /\ CodecIdle
    /\ StartIdle
    /\ AuxIdle
    /\ RunIdle
    /\ TestsIdle
    /\ ResetIdle

sessFrame == <<codecVars, startVars, auxVars, runVars, testsVars, resetVars>>

\* SystemTime::now between two readings
AdvanceClock(d) ==
    /\ ticks < MaxTicks
    /\ clock' = clock + d
    /\ ticks' = ticks + 1
    /\ UNCHANGED <<authVars, sessFrame>>

\* log_in: a generated token that meets a row is generated again, so the
\* row inserted has a token no row holds
log_in(user_id, token) ==
    /\ RowsOf(token) = {}
    /\ sessions' = sessions \cup {SessionRow(token, user_id, clock + TOKEN_DURATION)}
    /\ UNCHANGED <<reqs, timeVars, sessFrame>>

\* clear_expired_tokens: delete from sessions where expiration < now
clear_expired_tokens ==
    /\ sessions' = {r \in sessions : ~(r.expiration < clock)}
    /\ UNCHANGED <<reqs, timeVars, sessFrame>>

\* the log-out route, run for a request the layer authenticated
log_out(i) ==
    /\ reqs[i].res.t = "user"
    /\ sessions' = {r \in sessions : r.user # reqs[i].res.user}
    /\ UNCHANGED <<reqs, timeVars, sessFrame>>

Arrive(cookie) ==
    /\ Len(reqs) < MaxReqs
    /\ reqs' = Append(reqs, NewRequest(cookie))
    /\ UNCHANGED <<sessions, timeVars, sessFrame>>

\* extract_cookie, then the select joining sessions and users
Lookup(i) ==
    /\ reqs[i].step = "start"
    /\ \/ /\ reqs[i].cookie = "absent"
          /\ reqs' = [reqs EXCEPT ![i] = Respond(@, ExtractNoUser(FALSE))]
       \/ /\ reqs[i].cookie = "garbage"
          /\ reqs' = [reqs EXCEPT ![i] = Respond(@, ExtractNoUser(TRUE))]
       \/ /\ reqs[i].cookie \in Tokens
          /\ reqs' = [reqs EXCEPT ![i] = Respond(@, ExtractError)]
       \/ /\ reqs[i].cookie \in Tokens
          /\ RowsOf(reqs[i].cookie) = {}
          /\ reqs' = [reqs EXCEPT ![i] = Respond(@, ExtractNoUser(TRUE))]
       \/ /\ reqs[i].cookie \in Tokens
          /\ \E r \in RowsOf(reqs[i].cookie) :
                reqs' = [reqs EXCEPT ![i].step = "selected",
                                     ![i].user = r.user,
                                     ![i].expiration = r.expiration]
    /\ UNCHANGED <<sessions, timeVars, sessFrame>>

\* now(), the expiry test and the rewrite test; the delete or update is
\* issued and awaited
Decide(i) ==
    /\ reqs[i].step = "selected"
    /\ LET now == clock
           new_expiration == now + TOKEN_DURATION
           r == [reqs[i] EXCEPT !.now = now]
       IN reqs' = [reqs EXCEPT ![i] =
             IF is_before(r.expiration, now)
             THEN [r EXCEPT !.step = "writing", !.write = DeleteSession]
             ELSE IF NeedsRewrite(r.expiration, new_expiration)
             THEN [r EXCEPT !.step = "writing", !.write = UpdateSession(new_expiration)]
             ELSE Respond(r, ExtractUser(r.user))]
    /\ UNCHANGED <<sessions, timeVars, sessFrame>>

\* the database runs the statement, or fails it
ApplyWrite(i) ==
    /\ reqs[i].step = "writing"
    /\ \/ /\ reqs' = [reqs EXCEPT ![i] = Respond(@, ExtractError)]
          /\ UNCHANGED sessions
       \/ /\ reqs[i].write.op = "delete"
          /\ sessions' = sessions \ RowsOf(reqs[i].cookie)
          /\ reqs' = [reqs EXCEPT ![i] = Respond(@, ExtractNoUser(TRUE))]
       \/ /\ reqs[i].write.op = "update"
          /\ sessions' = {IF r.token = reqs[i].cookie
                          THEN [r EXCEPT !.expiration = reqs[i].write.expiration]
                          ELSE r : r \in sessions}
          /\ reqs' = [reqs EXCEPT ![i] = Respond(@, ExtractUser(reqs[i].user))]
    /\ UNCHANGED <<timeVars, sessFrame>>

SessionNext ==
    \/ \E d \in Jumps : AdvanceClock(d)
    \/ \E u \in UserIds, t \in Tokens : log_in(u, t)
    \/ clear_expired_tokens
    \/ \E i \in 1..Len(reqs) : log_out(i)
    \/ \E c \in Cookies : Arrive(c)
    \/ \E i \in 1..Len(reqs) : Lookup(i)
    \/ \E i \in 1..Len(reqs) : Decide(i)
    \/ \E i \in 1..Len(reqs) : ApplyWrite(i)

SessionSpec == SessionInit /\ [][SessionNext]_vars

\* the steps in which request i leaves the layer, and the clock reading its
\* decision was made with
Leaves(i) == reqs[i].step # "done" /\ reqs'[i].step = "done"
Decided(i) == reqs[i].step \in {"selected", "writing"}
ReadNow(i) == IF reqs[i].step = "writing" THEN reqs[i].now ELSE clock
Others(token) == {r \in sessions : r.token # token}

\* what a request that leaves the layer did, given the row it read
LeavesAsSpecified(i) ==
    LET r == reqs[i]
        out == reqs'[i].response
        now == ReadNow(i)
        target == now + 5 * 24 * 60 * 60
        far == \/ r.expiration - target > 5 * 60
               \/ target - r.expiration > 5 * 60
    IN  /\ r.expiration < now =>
              /\ out.user = ""
              /\ out.status = "handled" =>
                    /\ out.removal
                    /\ {q \in sessions' : q.token = r.cookie} = {}
                    /\ Others(r.cookie) = {q \in sessions' : q.token # r.cookie}
        /\ (r.expiration >= now /\ out.status = "handled") =>
              /\ out.user = r.user
              /\ ~out.removal
              /\ ~far => sessions' = sessions
              /\ far =>
                    /\ \A q \in sessions' : q.token = r.cookie => q.expiration = target
                    /\ {q.token : q \in sessions'} = {q.token : q \in sessions}
                    /\ Others(r.cookie) = {q \in sessions' : q.token # r.cookie}
                    \* the value written is not earlier than the value read
                    /\ target >= r.expiration
        /\ out.status = "error" => (out.user = "" /\ sessions' = sessions)

----------------------------------------------------------------------------
(* Password reset: the handlers of /password-reset and                      *)
(* /password-reset/do-reset (checked under ResetSpec).  Both await their    *)
(* select and their update, so invocations interleave between the two.      *)

\* the users table holds one row, of user "u1"; "nobody" names no row
Usernames == {"u1", "nobody"}

\* the values rand::random gives for a Key
Keys == {1, 2}

ResetJumps == {1, minutes(5)}

\* the query and form of a do_reset request: user, key, whether a POST
DoResetQueries ==
    ({"u1"} \X Keys \X BOOLEAN) \cup {<<"nobody", 1, TRUE>>}

\* Timestamp::is_in_past, at the clock reading `now`
is_in_past(expiration, now) == is_before(expiration, now)

\* Option::is_some_and(|expiration| !expiration.is_in_past())
NotExpired(expiration, now) == expiration # Null /\ ~is_in_past(expiration, now)

KeyAccepted_IgnoreExpiry(stored_key, expiration, key, now) == stored_key = key

\* the negation of do_reset's refusal test
KeyAccepted(stored_key, expiration, key, now) ==
    ~(stored_key # key \/ ~NotExpired(expiration, now))

NoUpdate == [op |-> "none", key |-> Null, expiration |-> Null]
UpdateReset(key, expiration) == [op |-> "reset", key |-> key, expiration |-> expiration]
UpdatePassword == [op |-> "password", key |-> Null, expiration |-> Null]

\* an invocation of handler (kind "request", a POST with a username) or of
\* do_reset (kind "do_reset", with a key, and a form when it is a POST)
NewPost(kind, user, key, form) ==
    [kind |-> kind, user |-> user, key |-> key, form |-> form,
     step |-> "start", rkey |-> Null, rexp |-> Null, remail |-> FALSE,
     now |-> Null, write |-> NoUpdate, result |-> "pending"]

\* the handler returns: its arguments and locals are gone
Answer(p, res) ==
    [NewPost(p.kind, "", Null, FALSE) EXCEPT !.step = "done", !.result = res]

\* the row as the database holds it when the server starts: no reset ever
\* requested, or one requested at the clock's origin by an earlier run
AccountRows ==
    [password : {0}, key : {Null}, expiration : {Null}, email : BOOLEAN]
        \cup {[password |-> 0, key |-> 1, expiration |-> minutes(5), email |-> TRUE]}

ResetInit ==
    /\ clock = 0
    /\ ticks = 0
    /\ account \in AccountRows
    /\ posts = <<>>
    /\ CodecIdle
    /\ StartIdle
    /\ AuxIdle
    /\ RunIdle
    /\ TestsIdle
    /\ AuthIdle

resetFrame == <<codecVars, startVars, auxVars, runVars, testsVars, authVars>>

\* a POST to /password-reset with a username
RequestReset(username) ==
    /\ Len(posts) < MaxPosts
    /\ posts' = Append(posts, NewPost("request", username, Null, TRUE))
    /\ UNCHANGED <<account, timeVars, resetFrame>>

\* a GET (the form) or POST (the new password) to /password-reset/do-reset
OpenDoReset(username, key, form) ==
    /\ Len(posts) < MaxPosts
    /\ posts' = Append(posts, NewPost("do_reset", username, key, form))
    /\ UNCHANGED <<account, timeVars, resetFrame>>

\* the select of either handler: no row, a database error, or the row
ReadUser(i) ==
    /\ posts[i].step = "start"
    /\ \/ posts' = [posts EXCEPT ![i] = Answer(@, "error")]
       \/ /\ posts[i].user = "nobody"
          /\ posts' = [posts EXCEPT ![i] =
                Answer(@, IF @.kind = "request" THEN "ok" ELSE "not_found")]
       \/ /\ posts[i].user = "u1"
          /\ posts' = [posts EXCEPT ![i].step = "selected",
                                    ![i].rkey = account.key,
                                    ![i].rexp = account.expiration,
                                    ![i].remail = account.email]
    /\ UNCHANGED <<account, timeVars, resetFrame>>

\* handle_post after its select: no email, a reset in progress, or the
\* update of key and expiration issued
GateRequest(i) ==
    /\ posts[i].kind = "request"
    /\ posts[i].step = "selected"
    /\ \/ /\ ~posts[i].remail
          /\ posts' = [posts EXCEPT ![i] = Answer(@, "ok")]
       \/ /\ posts[i].remail
          /\ NotExpired(posts[i].rexp, clock)
          /\ posts' = [posts EXCEPT ![i] = Answer(@, "rejected")]
       \/ /\ posts[i].remail
          /\ ~NotExpired(posts[i].rexp, clock)
          /\ \E k \in Keys :
                posts' = [posts EXCEPT ![i].step = "writing", ![i].now = clock,
                             ![i].write = UpdateReset(k, clock + minutes(5))]
    /\ UNCHANGED <<account, timeVars, resetFrame>>

\* do_reset after its select: refused, the form shown, or the update of the
\* password issued
GateDoReset(i) ==
    /\ posts[i].kind = "do_reset"
    /\ posts[i].step = "selected"
    /\ posts' = [posts EXCEPT ![i] =
          IF ~KeyAccepted(@.rkey, @.rexp, @.key, clock) THEN Answer(@, "rejected")
          ELSE IF ~@.form THEN Answer(@, "form")
          ELSE [@ EXCEPT !.step = "writing", !.now = clock, !.write = UpdatePassword]]
    /\ UNCHANGED <<account, timeVars, resetFrame>>

\* the database runs the update, or fails it
RunUpdate(i) ==
    /\ posts[i].step = "writing"
    /\ \/ /\ posts' = [posts EXCEPT ![i] = Answer(@, "error")]
          /\ UNCHANGED account
       \/ /\ posts[i].write.op = "reset"
          /\ account' = [account EXCEPT !.key = posts[i].write.key,
                                        !.expiration = posts[i].write.expiration]
          /\ posts' = [posts EXCEPT ![i] = Answer(@, "ok")]
       \/ /\ posts[i].write.op = "password"
          /\ account' = [account EXCEPT !.password = @ + 1]
          /\ posts' = [posts EXCEPT ![i] = Answer(@, "redirect")]
    /\ UNCHANGED <<timeVars, resetFrame>>

\* the clock advances between two readings
ResetTick(d) ==
    /\ ticks < MaxTicks
    /\ clock' = clock + d
    /\ ticks' = ticks + 1
    /\ UNCHANGED <<resetVars, resetFrame>>

ResetNext ==
    \/ \E d \in ResetJumps : ResetTick(d)
    \/ \E u \in Usernames : RequestReset(u)
    \/ \E q \in DoResetQueries : OpenDoReset(q[1], q[2], q[3])
    \/ \E i \in 1..Len(posts) : ReadUser(i)
    \/ \E i \in 1..Len(posts) : GateRequest(i)
    \/ \E i \in 1..Len(posts) : GateDoReset(i)
    \/ \E i \in 1..Len(posts) : RunUpdate(i)

ResetSpec == ResetInit /\ [][ResetNext]_vars

\* the steps in which invocation i returns
Returns(i) == posts[i].step # "done" /\ posts'[i].step = "done"

\* the row invocation i read held a reset that had not expired at `now`
ReadActive(i, now) == posts[i].rexp # Null /\ posts[i].rexp >= now

\* the keys a do_reset request would be let through with now
ValidKeys == {k \in Keys : account.key = k /\ account.expiration # Null
                              /\ account.expiration >= clock}

====
